---- MODULE Spec2Model ----
(***************************************************************************)
(* Model of the incentives backend (gaurav-hsv/vector-biz-app):            *)
(*   app/sessions.py        in-memory session store                        *)
(*   app/sessions_redis.py  Redis session store, one Redis command a step  *)
(*   app/routes/message.py  post_message, one turn                         *)
(*   app/search.py          vector_search and _rrf_fuse                    *)
(*                                                                         *)
(* Time is counted in hours.  A Redis key that carries a time-to-live      *)
(* disappears at the instant the clock reaches its expiry time, so expiry  *)
(* is part of the clock's Tick.  The JSON text kept under a session key is *)
(* json.dumps({"messages": [...]}) of a list of dicts of strings and ints, *)
(* which json.loads gives back unchanged; the model keeps the list.        *)
(***************************************************************************)
EXTENDS Integers, Sequences, FiniteSets, TLC

\* ------------------------------------------------------------------ bounds
MaxTime == 7
MaxAppends == 7
MaxRaceAppends == 2
MaxHits == 2

\* ------------------------------------------------------- program constants
\* 60 * 60 * 6 seconds, in hours
TTL == 6
\* obj["messages"][-6:] and _store[...]["messages"][-6:]
CAP == 6
\* the characters of an exception's message that an error response keeps
DetailMax == 200

Workers == {"w1", "w2"}
Caller == "w1"
Sids == {"s1", "s2"}
Roles == {"user"}
Texts == {"a", "b"}
TailNs == {0, 2, 7}
\* how far the clock moves at once: short of TTL, or TTL
Jumps == {TTL - 1, TTL}

None == "None"
\* a key that is not there, in Redis or in _store
NoKey == [has |-> FALSE, val |-> << >>, exp |-> -1]
\* a key without a time-to-live
NoTTL == -1
\* what a call can return: nothing, a session id, a list, or an exception
RetNone == [kind |-> "none", sid |-> None, list |-> << >>]
RetSid(sid) == [kind |-> "sid", sid |-> sid, list |-> << >>]
RetList(l) == [kind |-> "list", sid |-> None, list |-> l]
RetRaise(e) == [kind |-> e, sid |-> None, list |-> << >>]
\* what _r.get gives: None, or the stored value
GotNone == [some |-> FALSE, val |-> << >>]
Got(v) == [some |-> TRUE, val |-> v]

VARIABLES backend, now, redis, store, wk, hist, expired, appends, turn, srch,
          mkt, cfg, ctx

storeVars == <<backend, now, redis, store, wk, hist, expired, appends>>
vars == <<backend, now, redis, store, wk, hist, expired, appends, turn, srch,
          mkt, cfg, ctx>>

Min(a, b) == IF a < b THEN a ELSE b

\* ----------------------------------------------------------- Python lists
\* lst[-n:] as Python evaluates it: -0 is 0, so n = 0 is lst[0:], the whole
\* list; n > 0 keeps the last n items (all when n >= len); n < 0 is lst[|n|:].
PySliceFromMinus(lst, n) ==
    IF n = 0 THEN lst
    ELSE IF n > 0
         THEN IF n >= Len(lst) THEN lst
              ELSE SubSeq(lst, Len(lst) - n + 1, Len(lst))
         ELSE IF -n >= Len(lst) THEN << >>
              ELSE SubSeq(lst, 1 - n, Len(lst))

\* ---------------------------------------------------------- Python values
\* A string is a sequence of tokens: " " is white space, "ANSWER:" and
\* "CLARIFY:" are the prefixes, any other token is text without white space.
\* A value is tagged with its Python type; a float is kept in hundredths.
PyMissing == [t |-> "missing", i |-> 0, s |-> << >>]
PyNone == [t |-> "none", i |-> 0, s |-> << >>]
PyInt(i) == [t |-> "int", i |-> i, s |-> << >>]
PyBool(b) == [t |-> "bool", i |-> IF b THEN 1 ELSE 0, s |-> << >>]
PyFloat(h) == [t |-> "float", i |-> h, s |-> << >>]
PyStr(s) == [t |-> "str", i |-> 0, s |-> s]
PyList(s) == [t |-> "list", i |-> 0, s |-> s]

\* bool(v): None, 0, 0.0, False, "" and [] are false
Truthy(v) ==
    CASE v.t \in {"missing", "none"} -> FALSE
      [] v.t \in {"int", "bool", "float"} -> v.i # 0
      [] OTHER -> v.s # << >>

\* isinstance(v, int): bool is a subclass of int
IsInstanceInt(v) == v.t \in {"int", "bool"}

\* the numerals among the model's text tokens, in hundredths
Numerals == [tok \in {"0.9", "1"} |-> IF tok = "0.9" THEN 90 ELSE 100]

\* float(v): the value, or the exception float raises
FloatOf(v) ==
    CASE v.t = "float" -> [ok |-> TRUE, v |-> v.i, exc |-> "none"]
      [] v.t \in {"int", "bool"} -> [ok |-> TRUE, v |-> 100 * v.i, exc |-> "none"]
      [] v.t = "str" ->
            IF Len(v.s) = 1 /\ v.s[1] \in DOMAIN Numerals
            THEN [ok |-> TRUE, v |-> Numerals[v.s[1]], exc |-> "none"]
            ELSE [ok |-> FALSE, v |-> 0, exc |-> "ValueError"]
      [] OTHER -> [ok |-> FALSE, v |-> 0, exc |-> "TypeError"]

RECURSIVE LStrip(_)
\* s.lstrip()
LStrip(s) == IF s # << >> /\ Head(s) = " " THEN LStrip(Tail(s)) ELSE s

RECURSIVE RStrip(_)
\* s.rstrip()
RStrip(s) ==
    IF s # << >> /\ s[Len(s)] = " " THEN RStrip(SubSeq(s, 1, Len(s) - 1)) ELSE s

\* s.strip()
Strip(s) == RStrip(LStrip(s))

\* s.startswith(prefix)
StartsWith(s, prefix) == s # << >> /\ Head(s) = prefix

RECURSIVE ReplaceFirst(_, _)
\* s.replace(prefix, "", 1): the first occurrence, wherever it is
ReplaceFirst(s, prefix) ==
    IF s = << >> THEN << >>
    ELSE IF Head(s) = prefix THEN Tail(s)
    ELSE <<Head(s)>> \o ReplaceFirst(Tail(s), prefix)

\* --------------------------------------------------------- Redis commands
\* _r.get(key): None for a missing (or expired) key
RedisGet(r, k) == IF r[k].has THEN Got(r[k].val) ELSE GotNone

\* faulty variant: the key is written whether or not it exists
RedisSetNxOverwrites(r, k, v) == [r EXCEPT ![k] = [has |-> TRUE, val |-> v, exp |-> NoTTL]]

\* _r.setnx(key, value): writes only when the key is missing; a new key has
\* no time-to-live
RedisSetNx(r, k, v) ==
    IF r[k].has THEN r ELSE [r EXCEPT ![k] = [has |-> TRUE, val |-> v, exp |-> NoTTL]]

\* _r.set(key, value): overwrites the value and discards any time-to-live
RedisSet(r, k, v) == [r EXCEPT ![k] = [has |-> TRUE, val |-> v, exp |-> NoTTL]]

\* _r.expire(key, seconds) at time t: no effect on a missing key
RedisExpire(r, k, ttl, t) ==
    IF r[k].has THEN [r EXCEPT ![k].exp = t + ttl] ELSE r

\* the keys whose time-to-live has run out at time t
RedisPurge(r, t) ==
    [k \in DOMAIN r |->
        IF r[k].has /\ r[k].exp # NoTTL /\ r[k].exp <= t THEN NoKey ELSE r[k]]

\* ------------------------------------------------------- post_message state
\* a followup value of the decision: missing, None, a dict with a message and
\* options (each possibly missing), or a value of another type
NoFollowup == [t |-> "missing", message |-> PyMissing, options |-> PyMissing]
\* the decision dict, field by field; mode "<none>" is a missing mode
NoDecision == [mode |-> "<none>", pick |-> PyMissing, confidence |-> PyMissing,
               followup |-> NoFollowup, recommendations |-> PyMissing]
\* detail of a payload that has none (else the number of its characters)
NoDetail == -1
\* the response payload, key by key (PyMissing: the key is not in the payload);
\* type "<raised>" is an exception that leaves post_message, named in error
NoResp == [type |-> "<none>", session_id |-> None, message |-> PyMissing,
           text |-> PyMissing, confidence |-> PyMissing, options |-> PyMissing,
           recommendations |-> PyMissing, engagement |-> PyMissing,
           error |-> "", detail |-> NoDetail, debug |-> FALSE]
NoTurn == [pc |-> "idle", debug |-> FALSE, text |-> << >>, selection |-> PyNone,
           sid |-> None, q |-> << >>,
           field |-> None, hits |-> << >>, passages |-> << >>, tail |-> << >>,
           decision |-> NoDecision, decide_raised |-> FALSE, chosen |-> 0,
           out |-> << >>, resp |-> NoResp, log |-> << >>, raised |-> {}]

\* the locals of vector_search (search.py) and its payload; top_k is -1 and
\* mode "<none>" until they are set
NoSearch == [pc |-> "idle", distinct_key |-> None, top_k |-> -1, vec_limit |-> 0,
             fts_limit |-> 0, vrows |-> << >>, frows |-> << >>,
             fused |-> << >>, mode |-> "<none>",
             values |-> << >>, sources |-> << >>, returned |-> -1]

\* ------------------------------------------------------------ worker state
Idle == [pc |-> "idle", fn |-> "none", sid |-> None, role |-> None,
         text |-> None, n |-> 0, raw |-> GotNone, ret |-> RetNone,
         minted |-> FALSE]

\* {"role": role, "text": text} and {"role": role, "text": text, "ts": ...}
MemEntry(role, text) == [role |-> role, text |-> text]
RedisEntry(role, text, t) == [role |-> role, text |-> text, ts |-> t]

\* str(uuid.uuid4()): an identifier that no session has or ever had and that
\* no call in progress is using
Uuid4 ==
    Sids \ ({s \in Sids : redis[s].has \/ store[s].has \/ expired[s]}
             \cup {wk[w].sid : w \in Workers})

\* --------------------------------------------- state outside a session
\* the worker processes that import country_config.py
Procs == {"p1", "p2"}

\* the strings of equal length among the terms and the windows the resolver
\* sorts: sorted(set(...), key=len, reverse=True) is stable, so two strings of
\* one length keep the order the set yields them in, and that order follows
\* the string hashes, which a Python process draws at its start
TiePairs == {{"canada", "brazil"}, {"india", "japan"}, {"canda", "brazl"}}

\* for each pair of equal length, the string the process's sets yield first
SetOrder == {o \in [TiePairs -> UNION TiePairs] : \A pr \in TiePairs : o[pr] \in pr}

NoneTriple == [country |-> None, market |-> None, rate |-> PyNone, stage |-> 0]

NoProc == [started |-> FALSE, first |-> [pr \in TiePairs |-> "canada"],
           done |-> FALSE, out |-> NoneTriple]

\* no text has been resolved
NoMarket == [called |-> FALSE, text |-> << >>, proc |-> [p \in Procs |-> NoProc]]

\* a dict of a config or of a patch: its keys and its list of workshop
\* engagements
Obj(keys, workshop) == [keys |-> keys, workshop |-> workshop]

\* no configuration call is in progress; heap holds the caller's config
\* object and the objects the call builds, before is the config at the call
NoCfg == [pc |-> "idle", ctype |-> "dict", message |-> << >>,
          heap |-> [config |-> Obj({}, << >>), local |-> Obj({}, << >>)],
          before |-> Obj({}, << >>), path |-> "none", raised |-> FALSE,
          rate |-> PyNone, plain |-> Obj({}, << >>), ret |-> Obj({}, << >>)]

\* no context has been built; lines are the blocks of the text, none says
\* the text is "(no context)"
NoCtx == [pc |-> "idle", fused |-> << >>, ctx_n |-> 0, ctx_max_chars |-> 0,
          lines |-> << >>, none |-> FALSE]

Init ==
    /\ backend \in {"mem", "redis"}
    /\ now = 0
    /\ redis = [k \in Sids |-> NoKey]
    /\ store = [k \in Sids |-> NoKey]
    /\ wk = [w \in Workers |-> Idle]
    /\ hist = [k \in Sids |-> << >>]
    /\ expired = [k \in Sids |-> FALSE]
    /\ appends = 0
    /\ turn = NoTurn
    /\ srch = NoSearch
    /\ mkt = NoMarket
    /\ cfg = NoCfg
    /\ ctx = NoCtx

\* ------------------------------------------------- sessions.py (in memory)
\* ensure_session(session_id): sid = session_id or a new uuid;
\* _store.setdefault(sid, {"messages": []}); return sid
MemEnsure(w, arg) ==
    /\ backend = "mem"
    /\ wk[w].pc = "idle"
    /\ \E sid \in (IF arg = None THEN Uuid4 ELSE {arg}) :
        /\ store' = IF store[sid].has THEN store
                    ELSE [store EXCEPT ![sid] = [NoKey EXCEPT !.has = TRUE]]
        /\ wk' = [wk EXCEPT ![w] = [Idle EXCEPT !.pc = "done", !.fn = "ensure",
                                     !.sid = sid, !.minted = (arg = None),
                                     !.ret = RetSid(sid)]]
    /\ UNCHANGED <<backend, now, redis, hist, expired, appends, turn, srch, mkt, cfg, ctx>>

\* the list append_message leaves in _store[session_id]["messages"]
MemAppended(msgs, entry) == PySliceFromMinus(Append(msgs, entry), CAP)

\* append_message(session_id, role, text): _store[session_id] raises KeyError
\* for a session that was never ensured
MemAppend(w, sid, role, text) ==
    /\ backend = "mem"
    /\ wk[w].pc = "idle"
    /\ appends < MaxAppends
    /\ appends' = appends + 1
    /\ IF ~store[sid].has
       THEN /\ wk' = [wk EXCEPT ![w] = [Idle EXCEPT !.pc = "done", !.fn = "append",
                                         !.sid = sid, !.role = role, !.text = text,
                                         !.ret = RetRaise("KeyError")]]
            /\ UNCHANGED <<store, hist>>
       ELSE /\ store' = [store EXCEPT ![sid].val = MemAppended(@, MemEntry(role, text))]
            /\ hist' = [hist EXCEPT ![sid] = Append(hist[sid], MemEntry(role, text))]
            /\ wk' = [wk EXCEPT ![w] = [Idle EXCEPT !.pc = "done", !.fn = "append",
                                         !.sid = sid, !.role = role, !.text = text]]
    /\ UNCHANGED <<backend, now, redis, expired, turn, srch, mkt, cfg, ctx>>

\* get_tail(session_id, n): _store.get(session_id, {}).get("messages", [])[-n:]
MemGetTail(w, sid, n) ==
    /\ backend = "mem"
    /\ wk[w].pc = "idle"
    /\ LET msgs == IF store[sid].has THEN store[sid].val ELSE << >>
       IN wk' = [wk EXCEPT ![w] = [Idle EXCEPT !.pc = "done", !.fn = "tail",
                                    !.sid = sid, !.n = n,
                                    !.raw = RedisGet(store, sid),
                                    !.ret = RetList(PySliceFromMinus(msgs, n))]]
    /\ UNCHANGED <<backend, now, redis, store, hist, expired, appends, turn, srch, mkt, cfg, ctx>>

\* ------------------------------------------------- sessions_redis.py
\* ensure_session(session_id), line 11: sid = session_id or str(uuid.uuid4())
CallEnsure(w, arg) ==
    /\ backend = "redis"
    /\ wk[w].pc = "idle"
    /\ \E sid \in (IF arg = None THEN Uuid4 ELSE {arg}) :
        /\ wk' = [wk EXCEPT ![w] = [Idle EXCEPT !.pc = "ens_setnx", !.fn = "ensure",
                                     !.sid = sid, !.minted = (arg = None)]]
    /\ UNCHANGED <<backend, now, redis, store, hist, expired, appends, turn, srch, mkt, cfg, ctx>>

\* line 13: _r.setnx(key, json.dumps({"messages": []}))
EnsSetNx(w) ==
    /\ wk[w].pc = "ens_setnx"
    /\ redis' = RedisSetNx(redis, wk[w].sid, << >>)
    /\ wk' = [wk EXCEPT ![w].pc = "ens_expire"]
    /\ UNCHANGED <<backend, now, store, hist, expired, appends, turn, srch, mkt, cfg, ctx>>

\* line 14: _r.expire(key, 60 * 60 * 6); then return sid, to the caller or
\* to append_message's line 22
EnsExpire(w) ==
    /\ wk[w].pc = "ens_expire"
    /\ redis' = RedisExpire(redis, wk[w].sid, TTL, now)
    /\ wk' = IF wk[w].fn = "ensure"
             THEN [wk EXCEPT ![w].pc = "done", ![w].ret = RetSid(wk[w].sid)]
             ELSE [wk EXCEPT ![w].pc = "app_get2"]
    /\ UNCHANGED <<backend, now, store, hist, expired, appends, turn, srch, mkt, cfg, ctx>>

\* append_message(session_id, role, text)
CallAppend(w, sid, role, text, budget) ==
    /\ backend = "redis"
    /\ wk[w].pc = "idle"
    /\ appends < budget
    /\ appends' = appends + 1
    /\ wk' = [wk EXCEPT ![w] = [Idle EXCEPT !.pc = "app_get", !.fn = "append",
                                 !.sid = sid, !.role = role, !.text = text]]
    /\ UNCHANGED <<backend, now, redis, store, hist, expired, turn, srch, mkt, cfg, ctx>>

\* lines 19-21: raw = _r.get(key); if not raw: ensure_session(session_id)
AppGet(w) ==
    /\ wk[w].pc = "app_get"
    /\ LET raw == RedisGet(redis, wk[w].sid)
       IN wk' = [wk EXCEPT ![w].raw = raw,
                           ![w].pc = IF raw.some THEN "app_set" ELSE "ens_setnx"]
    /\ UNCHANGED <<backend, now, redis, store, hist, expired, appends, turn, srch, mkt, cfg, ctx>>

\* line 22: raw = _r.get(key) or '{"messages": []}'
AppGet2(w) ==
    /\ wk[w].pc = "app_get2"
    /\ LET raw == RedisGet(redis, wk[w].sid)
       IN wk' = [wk EXCEPT ![w].raw = IF raw.some THEN raw ELSE Got(<< >>),
                           ![w].pc = "app_set"]
    /\ UNCHANGED <<backend, now, redis, store, hist, expired, appends, turn, srch, mkt, cfg, ctx>>

\* faulty variant: the cap is applied before the new entry is added
RedisAppendedCapFirst(raw, entry) == Append(PySliceFromMinus(raw, CAP), entry)

\* lines 24-25: obj["messages"].append(entry); obj["messages"][-6:]
RedisAppended(raw, entry) == PySliceFromMinus(Append(raw, entry), CAP)

\* faulty variant: the write works on the list as it is stored at the time of the write
ReadForWriteFresh(w) == redis[wk[w].sid].val

\* line 23: obj = json.loads(raw), the list read at line 19 or 22
ReadForWrite(w) == wk[w].raw.val

\* lines 23-26: obj = json.loads(raw); append; keep tail; _r.set(key, ...)
AppSet(w) ==
    /\ wk[w].pc = "app_set"
    /\ LET entry == RedisEntry(wk[w].role, wk[w].text, now)
       IN /\ redis' = RedisSet(redis, wk[w].sid, RedisAppended(ReadForWrite(w), entry))
          /\ hist' = [hist EXCEPT ![wk[w].sid] = Append(@, entry)]
    /\ wk' = [wk EXCEPT ![w].pc = "app_expire"]
    /\ UNCHANGED <<backend, now, store, expired, appends, turn, srch, mkt, cfg, ctx>>

\* line 27: _r.expire(key, 60 * 60 * 6)
AppExpire(w) ==
    /\ wk[w].pc = "app_expire"
    /\ redis' = RedisExpire(redis, wk[w].sid, TTL, now)
    /\ wk' = [wk EXCEPT ![w].pc = "done"]
    /\ UNCHANGED <<backend, now, store, hist, expired, appends, turn, srch, mkt, cfg, ctx>>

\* get_tail(session_id, n), lines 30-35
CallTail(w, sid, n) ==
    /\ backend = "redis"
    /\ wk[w].pc = "idle"
    /\ wk' = [wk EXCEPT ![w] = [Idle EXCEPT !.pc = "tail_get", !.fn = "tail",
                                 !.sid = sid, !.n = n]]
    /\ UNCHANGED <<backend, now, redis, store, hist, expired, appends, turn, srch, mkt, cfg, ctx>>

TailGet(w) ==
    /\ wk[w].pc = "tail_get"
    /\ LET raw == RedisGet(redis, wk[w].sid)
       IN wk' = [wk EXCEPT ![w].raw = raw, ![w].pc = "done",
                           ![w].ret = IF raw.some
                                      THEN RetList(PySliceFromMinus(raw.val, wk[w].n))
                                      ELSE RetList(<< >>)]
    /\ UNCHANGED <<backend, now, redis, store, hist, expired, appends, turn, srch, mkt, cfg, ctx>>

\* the call has returned; the caller is free to make the next one
Return(w) ==
    /\ wk[w].pc = "done"
    /\ wk' = [wk EXCEPT ![w] = Idle]
    /\ UNCHANGED <<backend, now, redis, store, hist, expired, appends, turn, srch, mkt, cfg, ctx>>

\* the clock advances by d hours; Redis drops the keys whose time-to-live
\* (set by _r.expire) has run out
Tick(d) ==
    /\ backend = "redis"
    /\ now + d <= MaxTime
    /\ now' = now + d
    /\ redis' = RedisPurge(redis, now + d)
    /\ expired' = [k \in Sids |-> expired[k] \/ (redis[k].has /\ ~redis'[k].has)]
    /\ UNCHANGED <<backend, store, wk, hist, appends, turn, srch, mkt, cfg, ctx>>

\* the calls of sessions.py
MemStep(w) ==
    \/ \E arg \in Sids \cup {None} : MemEnsure(w, arg)
    \/ \E sid \in Sids, role \in Roles, text \in Texts : MemAppend(w, sid, role, text)
    \/ \E sid \in Sids, n \in TailNs : MemGetTail(w, sid, n)
    \/ Return(w)

\* the calls of sessions_redis.py, command by command
RedisStep(w, args, ns, budget) ==
    \/ \E arg \in args : CallEnsure(w, arg)
    \/ EnsSetNx(w)
    \/ EnsExpire(w)
    \/ \E sid \in Sids, role \in Roles, text \in Texts :
            CallAppend(w, sid, role, text, budget)
    \/ AppGet(w)
    \/ AppGet2(w)
    \/ AppSet(w)
    \/ AppExpire(w)
    \/ \E sid \in Sids, n \in ns : CallTail(w, sid, n)
    \/ TailGet(w)
    \/ Return(w)

\* one caller, either store, within the lifetime of its sessions: the clock
\* does not reach any expiry time
NextSeq ==
    \/ MemStep(Caller)
    \/ RedisStep(Caller, Sids \cup {None}, TailNs, MaxAppends)

SpecSeq == Init /\ [][NextSeq]_vars

\* concurrent turns on the Redis store for sessions the callers name, and the
\* clock; a turn reads the tail with n = 6 (routes/message.py line 200)
Next ==
    \/ \E w \in Workers : RedisStep(w, Sids, {CAP}, MaxRaceAppends)
    \/ \E d \in Jumps : Tick(d)

InitRedis == Init /\ backend = "redis"

Spec == InitRedis /\ [][Next]_vars

\* ------------------------------------------------- routes/message.py
\* what one turn can be given and what its collaborators can return
TurnTexts == {<< >>, <<" ">>, <<"x">>, <<"rate">>}
Selections == {PyNone, PyStr(<<"y">>)}
SidArgs == {None, "s1"}
TopScores == {50, 75, 80}
DecisionModes == {"answer", "clarify", "not_understood", "refuse", "<none>"}
Picks == {PyMissing, PyInt(0), PyInt(1), PyInt(2), PyInt(MaxHits + 1),
          PyStr(<<"1">>), PyBool(TRUE)}
Confidences == {PyMissing, PyNone, PyFloat(50), PyStr(<<"0.9">>), PyStr(<<"high">>)}
Followups ==
    {NoFollowup,
     [NoFollowup EXCEPT !.t = "none"],
     [NoFollowup EXCEPT !.t = "str"],
     [NoFollowup EXCEPT !.t = "dict"],
     [NoFollowup EXCEPT !.t = "dict", !.message = PyNone],
     [NoFollowup EXCEPT !.t = "dict", !.message = PyStr(<< >>)],
     [NoFollowup EXCEPT !.t = "dict", !.message = PyStr(<<" ">>)],
     [NoFollowup EXCEPT !.t = "dict", !.message = PyStr(<<" ", "which?">>),
                        !.options = PyList(<<"o1", "o2">>)]}
Recommendations == {PyMissing, PyList(<<"r1">>)}
\* a decision takes every value in the fields that post_message reads for its
\* mode and one of two values in each of the others
PlainPicks == {PyMissing, PyInt(1)}
PlainConfidences == {PyMissing, PyFloat(50)}
PlainFollowups ==
    {NoFollowup,
     [NoFollowup EXCEPT !.t = "dict", !.message = PyStr(<<" ", "which?">>),
                        !.options = PyList(<<"o1", "o2">>)]}
Decisions ==
    [mode : {"answer"}, pick : Picks, confidence : Confidences,
     followup : PlainFollowups, recommendations : Recommendations]
    \cup [mode : {"clarify", "not_understood"}, pick : PlainPicks,
          confidence : PlainConfidences, followup : Followups,
          recommendations : Recommendations]
    \cup [mode : DecisionModes \ {"answer", "clarify", "not_understood"},
          pick : PlainPicks, confidence : PlainConfidences,
          followup : PlainFollowups, recommendations : Recommendations]
AnswerOutputs == {<<"ANSWER:", " ", "x">>, <<"CLARIFY:", " ", "x">>, <<"x">>,
                  <<"x", " ", "ANSWER:", "y">>}

MsgClarify == <<"Could you clarify your question?">>
MsgClarifyOneSentence == <<"Could you clarify your question in one sentence?">>
MsgNotFound == <<"No matching content in incentives data.">>

\* the i-th row vector_search returns, best first
Hit(i, top) ==
    [id |-> i, title |-> <<ToString(i)>>,
     content |-> <<"Value:", " ", ToString(i)>>,
     score |-> IF i = 1 THEN top ELSE 50 - 10 * i]

\* _canonical_field: the first synonym pattern found in the text, here
\* r"\brate\b" of "Formula"
CanonicalField(q) == IF \E k \in 1..Len(q) : q[k] = "rate" THEN "Formula" ELSE None

RECURSIVE AfterValue(_)
\* _extract_value_from_content: what follows "Value:", else the whole text
AfterValue(text) ==
    IF text = << >> THEN << >>
    ELSE IF Head(text) = "Value:" THEN Tail(text) ELSE AfterValue(Tail(text))

ExtractValueFromContent(content) ==
    LET text == Strip(content)
    IN IF \E k \in 1..Len(text) : text[k] = "Value:" THEN Strip(AfterValue(text)) ELSE text

\* _trim_passages: one passage for each hit, in order (contents here are
\* shorter than max_chars)
TrimPassages(hits) ==
    [k \in 1..Len(hits) |-> [title |-> Strip(hits[k].title), content |-> Strip(hits[k].content)]]

\* _fallback_recommendations_from_hits(hits, n): a question for each of
\* hits[1:n+1] that has a title
FallbackRecommendations(hits, n) ==
    LET m == Min(n, Len(hits) - 1)
    IN PyList([k \in 1..(IF m < 0 THEN 0 ELSE m) |-> hits[k + 1].title[1]])

\* ensure_session run to its end by one caller
EnsureSessionRun(r, sid, t) == RedisExpire(RedisSetNx(r, sid, << >>), sid, TTL, t)

\* faulty variant: the message is stored twice
AppendMessageRunTwice(r, sid, entry, t) ==
    LET got == RedisGet(r, sid)
        raw == IF got.some THEN got.val ELSE << >>
    IN RedisExpire(RedisSet(r, sid, RedisAppended(RedisAppended(raw, entry), entry)),
                   sid, TTL, t)

\* append_message run to its end by one caller
AppendMessageRun(r, sid, entry, t) ==
    LET got == RedisGet(r, sid)
        r1 == IF got.some THEN r ELSE EnsureSessionRun(r, sid, t)
        got2 == RedisGet(r1, sid)
        raw == IF got.some THEN got.val ELSE IF got2.some THEN got2.val ELSE << >>
    IN RedisExpire(RedisSet(r1, sid, RedisAppended(raw, entry)), sid, TTL, t)

\* get_tail run to its end by one caller
GetTailRun(r, sid, n) ==
    LET got == RedisGet(r, sid)
    IN IF got.some THEN PySliceFromMinus(got.val, n) ELSE << >>

\* list[i] with a Python index: negative indices count from the end
PyIndex(list, i) ==
    IF i >= 0 /\ i < Len(list) THEN [ok |-> TRUE, at |-> i + 1]
    ELSE IF i < 0 /\ -i <= Len(list) THEN [ok |-> TRUE, at |-> Len(list) + i + 1]
    ELSE [ok |-> FALSE, at |-> 0]

Raised(sid, exc) == [NoResp EXCEPT !.type = "<raised>", !.session_id = sid, !.error = exc]
\* the lengths of str(e) of the exceptions the external calls raise
ExcLens == {0, 1, DetailMax, DetailMax + 1}

\* faulty variant: the message is not cut
DetailOfUncut(e) == e

\* str(e)[:200], by its length
DetailOf(e) == Min(e, DetailMax)

\* lines 169, 175, 225: the error payload for an exception with a message of
\* e characters
ErrorResp(sid, error, e) ==
    [NoResp EXCEPT !.type = "error", !.session_id = sid, !.error = error,
                   !.detail = DetailOf(e)]

\* lines 155-157: q = inp.text.strip(), plus " " and the stripped selection
\* when a selection is given
QueryText(text, selection) ==
    IF Truthy(selection) THEN Strip(text) \o <<" ">> \o Strip(selection.s)
    ELSE Strip(text)

\* lines 17-20 and 153: the request is validated (text has min_length=1) and,
\* if valid, handed to post_message; an invalid one is answered without it
TReceive ==
    /\ turn.pc = "idle"
    /\ \E text \in TurnTexts, selection \in Selections, debug \in BOOLEAN :
        turn' = IF Len(text) >= 1
                THEN [turn EXCEPT !.pc = "ensure", !.text = text,
                                  !.selection = selection, !.debug = debug]
                ELSE [turn EXCEPT !.pc = "done", !.text = text,
                                  !.selection = selection, !.debug = debug,
                                  !.resp = [NoResp EXCEPT !.type = "<rejected>"]]
    /\ UNCHANGED <<backend, now, redis, store, wk, hist, expired, appends, srch, mkt, cfg, ctx>>

\* line 154: sid = ensure_session(inp.session_id)
TEnsure ==
    /\ turn.pc = "ensure"
    /\ \E arg \in SidArgs : \E sid \in (IF arg = None THEN Uuid4 ELSE {arg}) :
        /\ redis' = EnsureSessionRun(redis, sid, now)
        /\ turn' = [turn EXCEPT !.pc = "append", !.sid = sid,
                                !.log = Append(@, "ensure")]
    /\ UNCHANGED <<backend, now, store, wk, hist, expired, appends, srch, mkt, cfg, ctx>>

\* lines 155-162: q = inp.text.strip(), plus the stripped selection;
\* append_message(sid, "user", q); detected_field = _canonical_field(q)
TAppend ==
    /\ turn.pc = "append"
    /\ LET q == QueryText(turn.text, turn.selection)
           entry == RedisEntry("user", q, now)
       IN /\ redis' = AppendMessageRun(redis, turn.sid, entry, now)
          /\ hist' = [hist EXCEPT ![turn.sid] = Append(@, entry)]
          /\ turn' = [turn EXCEPT !.pc = "embed", !.q = q, !.field = CanonicalField(q),
                                  !.log = Append(@, "append")]
    /\ UNCHANGED <<backend, now, store, wk, expired, appends, srch, mkt, cfg, ctx>>

\* lines 164-169: q_vec = embed(structured_q), or the error response
TEmbed ==
    /\ turn.pc = "embed"
    /\ \E ok \in BOOLEAN, e \in ExcLens :
        turn' = IF ok
                THEN [turn EXCEPT !.pc = "search", !.log = Append(@, "embed")]
                ELSE [turn EXCEPT !.pc = "done", !.log = Append(@, "embed"),
                                  !.raised = @ \cup {"embed"},
                                  !.resp = ErrorResp(turn.sid, "llm_embed_failed", e)]
    /\ UNCHANGED <<backend, now, redis, store, wk, hist, expired, appends, srch, mkt, cfg, ctx>>

\* faulty variant: the short-circuit answer claims full confidence
DirectAnswerFullConfidence(sid, hits, debug) ==
    [NoResp EXCEPT !.type = "answer", !.session_id = sid,
                   !.engagement = PyStr(hits[1].title),
                   !.text = PyStr(ExtractValueFromContent(hits[1].content)),
                   !.confidence = PyFloat(100),
                   !.recommendations = FallbackRecommendations(hits, 4),
                   !.debug = debug]

\* lines 180-197: the payload of the short-circuit answer
DirectAnswer(sid, hits, debug) ==
    [NoResp EXCEPT !.type = "answer", !.session_id = sid,
                   !.engagement = PyStr(hits[1].title),
                   !.text = PyStr(ExtractValueFromContent(hits[1].content)),
                   !.confidence = PyFloat(hits[1].score),
                   !.recommendations = FallbackRecommendations(hits, 4),
                   !.debug = debug]

\* faulty variant: the short-circuit does not ask for a detected field
ShortCircuitsWithoutField(field, hits) == hits # << >> /\ hits[1].score >= 75

\* lines 181-183: a detected field and a top score of at least 0.75
ShortCircuits(field, hits) == field # None /\ hits # << >> /\ hits[1].score >= 75

\* lines 174-175: vector_search raised an exception with a message of e
\* characters
SearchFailed(t, e) ==
    [t EXCEPT !.pc = "done", !.raised = @ \cup {"search"},
              !.resp = ErrorResp(t.sid, "db_search_failed", e)]

\* lines 177-199: vector_search returned hits: none is not_found; a
\* short-circuit is answered from the top hit; else on to the decision
SearchReturned(t, hits) ==
    IF hits = << >>
    THEN [t EXCEPT !.pc = "done",
                   !.resp = [NoResp EXCEPT !.type = "not_found", !.session_id = t.sid,
                                           !.message = PyStr(MsgNotFound)]]
    ELSE IF ShortCircuits(t.field, hits)
    THEN [t EXCEPT !.pc = "done", !.hits = hits,
                   !.resp = DirectAnswer(t.sid, hits, t.debug)]
    ELSE [t EXCEPT !.pc = "tail", !.hits = hits, !.passages = TrimPassages(hits)]

\* faulty variant: a failed search is taken for a search without hits
SearchOutcomeSwallowsError(t, ok, hits, e) ==
    SearchReturned(IF ok THEN t ELSE [t EXCEPT !.raised = @ \cup {"search"}],
                   IF ok THEN hits ELSE << >>)

\* lines 172-199: the try around vector_search and what follows it
SearchOutcome(t, ok, hits, e) ==
    IF ok THEN SearchReturned(t, hits) ELSE SearchFailed(t, e)

\* lines 171-199: hits = vector_search(...), or the error response
TSearch ==
    /\ turn.pc = "search"
    /\ \E ok \in BOOLEAN, n \in 0..MaxHits, top \in TopScores, e \in ExcLens :
        turn' = SearchOutcome([turn EXCEPT !.log = Append(@, "search")], ok,
                              [k \in 1..n |-> Hit(k, top)], e)
    /\ UNCHANGED <<backend, now, redis, store, wk, hist, expired, appends, srch, mkt, cfg, ctx>>

\* line 200: tail = get_tail(sid, n=6)
TGetTail ==
    /\ turn.pc = "tail"
    /\ turn' = [turn EXCEPT !.pc = "decide", !.tail = GetTailRun(redis, turn.sid, CAP),
                            !.log = Append(@, "tail")]
    /\ UNCHANGED <<backend, now, redis, store, wk, hist, expired, appends, srch, mkt, cfg, ctx>>

\* faulty variant: the substitute decision carries no followup
FallbackDecisionNoFollowup ==
    [mode |-> "clarify", pick |-> PyNone, confidence |-> PyFloat(0),
     followup |-> NoFollowup, recommendations |-> PyMissing]

\* lines 206-212: the decision post_message substitutes when llm_decide raises
FallbackDecision ==
    [mode |-> "clarify", pick |-> PyNone, confidence |-> PyFloat(0),
     followup |-> [t |-> "dict", message |-> PyStr(MsgClarifyOneSentence),
                   options |-> PyList(<< >>)],
     recommendations |-> PyMissing]

\* faulty variant: the upper end of the range is not checked
SanitizePickNoUpper(pick, n) ==
    IF ~IsInstanceInt(pick) \/ pick.i < 1 THEN 1 ELSE pick.i

\* lines 218-220: pick = decision.get("pick"); anything but an int within
\* 1..len(hits) becomes 1
SanitizePick(pick, n) ==
    IF ~IsInstanceInt(pick) \/ pick.i < 1 \/ pick.i > n THEN 1 ELSE pick.i

\* lines 246-247: follow = decision.get("followup", {}) or {};
\* msg = (follow.get("message") or "Could you clarify your question?").strip()
\* An empty dict is false, so it is replaced by {}; a non-empty str has no get.
FollowupMessage(followup) ==
    IF followup.t = "str" THEN [ok |-> FALSE, msg |-> << >>, exc |-> "AttributeError"]
    ELSE LET m == IF followup.t = "dict" THEN followup.message ELSE PyMissing
             v == IF Truthy(m) THEN m ELSE PyStr(MsgClarify)
         IN IF v.t = "str" THEN [ok |-> TRUE, msg |-> Strip(v.s), exc |-> "none"]
            ELSE [ok |-> FALSE, msg |-> << >>, exc |-> "AttributeError"]

\* line 248: opts = follow.get("options") or []
FollowupOptions(followup) ==
    IF followup.t = "dict" /\ Truthy(followup.options) THEN followup.options
    ELSE PyList(<< >>)

\* lines 245-255: the response to a clarify or not_understood decision
ClarifyResp(sid, decision, debug) ==
    LET fm == FollowupMessage(decision.followup)
        opts == FollowupOptions(decision.followup)
    IN IF ~fm.ok THEN Raised(sid, fm.exc)
       ELSE [NoResp EXCEPT !.type = "clarify", !.session_id = sid,
                           !.message = PyStr(fm.msg),
                           !.options = IF Truthy(opts) THEN opts ELSE PyMissing,
                           !.debug = debug]

\* lines 257-266: the response to a decision of any other mode
OtherModeResp(sid, decision, debug) ==
    [NoResp EXCEPT !.type = "clarify", !.session_id = sid,
                   !.message = PyStr(MsgClarifyOneSentence),
                   !.recommendations = IF decision.recommendations = PyMissing
                                       THEN PyList(<< >>)
                                       ELSE decision.recommendations,
                   !.debug = debug]

\* lines 214-266 with the modes that line 217 takes for an answer
ActOn(t, decision, answerModes) ==
    IF decision.mode \in answerModes
    THEN LET pick == SanitizePick(decision.pick, Len(t.hits))
             at == PyIndex(t.hits, pick - 1)
         IN IF at.ok
            THEN [t EXCEPT !.pc = "synth", !.decision = decision, !.chosen = at.at]
            ELSE [t EXCEPT !.pc = "done", !.decision = decision,
                           !.resp = Raised(t.sid, "IndexError")]
    ELSE IF decision.mode \in {"clarify", "not_understood"}
    THEN [t EXCEPT !.pc = "done", !.decision = decision,
                   !.resp = ClarifyResp(t.sid, decision, t.debug)]
    ELSE [t EXCEPT !.pc = "done", !.decision = decision,
                   !.resp = OtherModeResp(t.sid, decision, t.debug)]

\* faulty variant: a decision without a mode is taken for an answer
ActMissingModeAnswers(t, decision) == ActOn(t, decision, {"answer", "<none>"})

\* lines 214-221 and 245-266: what post_message does with the decision, up
\* to the call of llm_answer or to the response
Act(t, decision) == ActOn(t, decision, {"answer"})

\* lines 202-204: decision = llm_decide(...) returns a dict
TDecide ==
    /\ turn.pc = "decide"
    /\ \E decision \in Decisions :
        turn' = Act([turn EXCEPT !.log = Append(@, "decide")], decision)
    /\ UNCHANGED <<backend, now, redis, store, wk, hist, expired, appends, srch, mkt, cfg, ctx>>

\* lines 205-212: llm_decide raises
TDecideRaises ==
    /\ turn.pc = "decide"
    /\ turn' = Act([turn EXCEPT !.log = Append(@, "decide"), !.decide_raised = TRUE],
                   FallbackDecision)
    /\ UNCHANGED <<backend, now, redis, store, wk, hist, expired, appends, srch, mkt, cfg, ctx>>

\* line 237: float(decision.get("confidence", 0.0))
AnswerConfidence(decision) ==
    FloatOf(IF decision.confidence = PyMissing THEN PyFloat(0) ELSE decision.confidence)

\* lines 227-243: the response built from llm_answer's output
AnswerResp(t, out) ==
    IF StartsWith(out, "CLARIFY:")
    THEN [NoResp EXCEPT !.type = "clarify", !.session_id = t.sid,
                        !.message = PyStr(Strip(ReplaceFirst(out, "CLARIFY:"))),
                        !.debug = t.debug]
    ELSE LET conf == AnswerConfidence(t.decision)
         IN IF ~conf.ok THEN Raised(t.sid, conf.exc)
            ELSE [NoResp EXCEPT !.type = "answer", !.session_id = t.sid,
                                !.engagement = PyStr(t.hits[t.chosen].title),
                                !.text = PyStr(Strip(ReplaceFirst(out, "ANSWER:"))),
                                !.confidence = PyFloat(conf.v),
                                !.recommendations =
                                    IF t.decision.recommendations = PyMissing
                                    THEN FallbackRecommendations(t.hits, 4)
                                    ELSE t.decision.recommendations,
                                !.debug = t.debug]

\* lines 222-243: out = llm_answer(user_text=q, passage=chosen_full)
TAnswer ==
    /\ turn.pc = "synth"
    /\ \E out \in AnswerOutputs :
        turn' = [turn EXCEPT !.pc = "done", !.out = out, !.log = Append(@, "answer"),
                             !.resp = AnswerResp(turn, out)]
    /\ UNCHANGED <<backend, now, redis, store, wk, hist, expired, appends, srch, mkt, cfg, ctx>>

\* lines 224-225: llm_answer raises
TAnswerRaises ==
    /\ turn.pc = "synth"
    /\ \E e \in ExcLens :
        turn' = [turn EXCEPT !.pc = "done", !.log = Append(@, "answer"),
                             !.raised = @ \cup {"answer"},
                             !.resp = ErrorResp(turn.sid, "llm_answer_failed", e)]
    /\ UNCHANGED <<backend, now, redis, store, wk, hist, expired, appends, srch, mkt, cfg, ctx>>

\* one turn of post_message on the Redis store
NextTurn ==
    \/ TReceive
    \/ TEnsure
    \/ TAppend
    \/ TEmbed
    \/ TSearch
    \/ TGetTail
    \/ TDecide
    \/ TDecideRaises
    \/ TAnswer
    \/ TAnswerRaises

SpecTurn == InitRedis /\ [][NextTurn]_vars

\* ============================================== hybrid retrieval (search.py)
DEFAULT_TOP_K == 15
DEFAULT_VEC_LIMIT == 90
DEFAULT_FTS_LIMIT == 90
DEFAULT_CTX_N == 8
\* _rrf_fuse(..., K: int = 60)
RRF_K == 60

\* the rows of rag_chunks have the ids 1..MaxIds
MaxIds == 10
\* every ranking of the ids 1..MaxSmallIds is tried
MaxSmallIds == 2

\* sim or lex of a record that has none
NoVal == -1

\* the metadata keys the logical key of a chunk is made of
NoMeta == [engagement_name |-> "", field |-> "", doc_name |-> "", section_path |-> ""]

\* metadata of the row with this id: rows 1 and 2 are chunks of one engagement
\* field, rows 3 and 4 chunks of one document section, row 5 has no metadata
MetaOf(id) ==
    IF id \in {1, 2} THEN [NoMeta EXCEPT !.engagement_name = "E1", !.field = "F1",
                                         !.doc_name = "D1", !.section_path = ToString(id)]
    ELSE IF id \in {3, 4} THEN [NoMeta EXCEPT !.doc_name = "D", !.section_path = "S"]
    ELSE IF id = 5 THEN NoMeta
    ELSE [NoMeta EXCEPT !.engagement_name = ToString(id), !.field = "F"]

\* the rows a query returns for a ranking of ids: (id, content, metadata, sim
\* or lex), the value falling with the position
RowsOf(ranking) ==
    [i \in 1..Len(ranking) |->
        [id |-> ranking[i], content |-> ToString(ranking[i]),
         metadata |-> MetaOf(ranking[i]), val |-> 100 - i]]

Perms(S) == {f \in [1..Cardinality(S) -> S] : \A i, j \in DOMAIN f : i # j => f[i] # f[j]}
Up(a, b) == [i \in 1..(b - a + 1) |-> a + i - 1]
Down(a, b) == [i \in 1..(b - a + 1) |-> b - i + 1]
\* the rankings a query can return: no id twice
Rankings ==
    UNION {Perms(S) : S \in SUBSET (1..MaxSmallIds)}
    \cup {Up(1, MaxIds), Up(2, MaxIds), Down(1, MaxIds), Down(1, MaxIds - 1)}

Queries == {"plain", "incentive types", "types of engagement"}
TopKs == {0, 1, 2, DEFAULT_CTX_N, DEFAULT_CTX_N + 1, DEFAULT_TOP_K}
\* the callers pass no limits
VecLimits == {DEFAULT_VEC_LIMIT}
FtsLimits == {DEFAULT_FTS_LIMIT}
\* what _fetch_distinct_values returns
DistinctValues == {<< >>, <<"a">>, <<"a", "b">>}

\* _detect_distinct_key
DetectDistinctKey(q) ==
    IF q = "incentive types" THEN "incentive_type"
    ELSE IF q = "types of engagement" THEN "engagement_type"
    ELSE None

\* seq[:k] for k >= 0
PySliceTo(seq, k) == [i \in 1..Min(k, Len(seq)) |-> seq[i]]

\* rank_v.get(_id): the 1-based position of the id (the last one, were it
\* there twice), 0 for None
RankOf(rows, id) ==
    LET P == {i \in 1..Len(rows) : rows[i].id = id}
    IN IF P = {} THEN 0 ELSE CHOOSE i \in P : \A j \in P : j <= i

\* scores are fractions n/d
FracSum(x, y) == [n |-> x.n * y.d + y.n * x.d, d |-> x.d * y.d]
FracGreater(x, y) == x.n * y.d > y.n * x.d
FracEqual(x, y) == x.n * y.d = y.n * x.d

\* faulty variant: a ranking that lacks the record counts as rank 0
ScoreAbsentAsRankZero(rv, rf, K) ==
    FracSum([n |-> 1, d |-> K + rv], [n |-> 1, d |-> K + rf])

\* line 150: (1.0/(K+rv) if rv else 0.0) + (1.0/(K+rf) if rf else 0.0)
Score(rv, rf, K) ==
    FracSum(IF rv # 0 THEN [n |-> 1, d |-> K + rv] ELSE [n |-> 0, d |-> 1],
            IF rf # 0 THEN [n |-> 1, d |-> K + rf] ELSE [n |-> 0, d |-> 1])

\* lines 146-151: scored, in the order of ids
Scored(vec_rows, fts_rows, ids, K) ==
    [i \in 1..Len(ids) |->
        [id |-> ids[i],
         score |-> Score(RankOf(vec_rows, ids[i]), RankOf(fts_rows, ids[i]), K)]]

\* line 152: scored.sort(key=score, reverse=True): by falling score, equal
\* scores in the order they had
SortByScoreDesc(scored) ==
    LET pos(i) == 1 + Cardinality({j \in 1..Len(scored) :
                                      FracGreater(scored[j].score, scored[i].score)})
                    + Cardinality({j \in 1..(i - 1) :
                                      FracEqual(scored[j].score, scored[i].score)})
    IN [p \in 1..Len(scored) |-> scored[CHOOSE i \in 1..Len(scored) : pos(i) = p]]

\* lines 155-159: by_id[_id]
ById(vec_rows, fts_rows, id) ==
    LET rv == RankOf(vec_rows, id)
        rf == RankOf(fts_rows, id)
        first == IF rv # 0 THEN vec_rows[rv] ELSE fts_rows[rf]
    IN [id |-> id, content |-> first.content, metadata |-> first.metadata,
        sim |-> IF rv # 0 THEN vec_rows[rv].val ELSE NoVal,
        lex |-> IF rf # 0 THEN fts_rows[rf].val ELSE NoVal]

\* _rrf_fuse, ids being list({*rank_v.keys(), *rank_f.keys()}) of line 145
RrfFuse(vec_rows, fts_rows, top_k, K, ids) ==
    LET order == PySliceTo(SortByScoreDesc(Scored(vec_rows, fts_rows, ids, K)), top_k)
    IN [i \in 1..Len(order) |-> ById(vec_rows, fts_rows, order[i].id)]

\* the ids of both rankings
Candidates(vec_rows, fts_rows) ==
    {vec_rows[i].id : i \in 1..Len(vec_rows)} \cup {fts_rows[i].id : i \in 1..Len(fts_rows)}

RECURSIVE Ascending(_)
Ascending(S) ==
    IF S = {} THEN << >>
    ELSE LET m == CHOOSE x \in S : \A y \in S : x <= y
         IN <<m>> \o Ascending(S \ {m})

Reversed(seq) == [i \in 1..Len(seq) |-> seq[Len(seq) + 1 - i]]

\* the orders in which a set of ids is iterated: a set has no order of its
\* own; every order of a small set, the rising and the falling one of a large
SetOrders(S) ==
    IF Cardinality(S) <= MaxSmallIds THEN Perms(S)
    ELSE {Ascending(S), Reversed(Ascending(S))}

\* faulty variant: every fused record becomes a source
SourcesUncapped(fused) == fused

\* lines 212-225: a source for each of fused[:DEFAULT_CTX_N] (pretty_source,
\* made of metadata keys of its own, is not modelled)
Sources(fused) == PySliceTo(fused, DEFAULT_CTX_N)

\* lines 50-95: the aggregate doc and one doc for each value; their ids are
\* the strings facet::key::..., here 0 and -1, -2, ...
SynthesizeSourcesForDistinct(values) ==
    [i \in 1..(Len(values) + 1) |->
        [id |-> 1 - i, content |-> IF i = 1 THEN "summary" ELSE values[i - 1],
         metadata |-> NoMeta, sim |-> NoVal, lex |-> NoVal]]

\* lines 172-182: vector_search(query, top_k, vec_limit, fts_limit) is called
SCall ==
    /\ srch.pc = "idle"
    /\ \E q \in Queries, top_k \in TopKs, vl \in VecLimits, fl \in FtsLimits :
        srch' = [srch EXCEPT !.pc = IF DetectDistinctKey(q) # None THEN "distinct" ELSE "vec",
                             !.distinct_key = DetectDistinctKey(q),
                             !.top_k = top_k, !.vec_limit = vl, !.fts_limit = fl]
    /\ UNCHANGED <<backend, now, redis, store, wk, hist, expired, appends, turn, mkt, cfg, ctx>>

\* lines 183-199: the distinct values of the key; with values the payload is
\* made of them, without the hybrid retrieval follows
SDistinct ==
    /\ srch.pc = "distinct"
    /\ \E values \in DistinctValues :
        srch' = IF values # << >>
                THEN [srch EXCEPT !.pc = "done", !.mode = "distinct", !.values = values,
                                  !.top_k = 0,
                                  !.sources = SynthesizeSourcesForDistinct(values),
                                  !.returned = Len(values) + 1]
                ELSE [srch EXCEPT !.pc = "vec"]
    /\ UNCHANGED <<backend, now, redis, store, wk, hist, expired, appends, turn, mkt, cfg, ctx>>

\* lines 202-207: the query is embedded and _vector_search returns at most
\* vec_limit rows
SVector ==
    /\ srch.pc = "vec"
    /\ \E r \in Rankings :
        srch' = [srch EXCEPT !.pc = "fts", !.vrows = PySliceTo(RowsOf(r), srch.vec_limit)]
    /\ UNCHANGED <<backend, now, redis, store, wk, hist, expired, appends, turn, mkt, cfg, ctx>>

\* line 208: _fts_search returns at most fts_limit rows
SFts ==
    /\ srch.pc = "fts"
    /\ \E r \in Rankings :
        srch' = [srch EXCEPT !.pc = "fuse", !.frows = PySliceTo(RowsOf(r), srch.fts_limit)]
    /\ UNCHANGED <<backend, now, redis, store, wk, hist, expired, appends, turn, mkt, cfg, ctx>>

\* lines 209-233: fused = _rrf_fuse(vrows, frows, top_k=top_k) and the payload
SFuse ==
    /\ srch.pc = "fuse"
    /\ \E ids \in SetOrders(Candidates(srch.vrows, srch.frows)) :
        LET fused == RrfFuse(srch.vrows, srch.frows, srch.top_k, RRF_K, ids)
        IN srch' = [srch EXCEPT !.pc = "done", !.fused = fused, !.mode = "hybrid",
                                !.sources = Sources(fused),
                                !.returned = Len(Sources(fused))]
    /\ UNCHANGED <<backend, now, redis, store, wk, hist, expired, appends, turn, mkt, cfg, ctx>>

\* lines 184-185, 202, 206-208: the database or the embedding raises, and so
\* does vector_search
SRaise ==
    /\ srch.pc \in {"distinct", "vec", "fts"}
    /\ srch' = [srch EXCEPT !.pc = "done", !.mode = "<raised>"]
    /\ UNCHANGED <<backend, now, redis, store, wk, hist, expired, appends, turn, mkt, cfg, ctx>>

NextSearch ==
    \/ SCall
    \/ SDistinct
    \/ SVector
    \/ SFts
    \/ SFuse
    \/ SRaise

SpecSearch == InitRedis /\ [][NextSearch]_vars

\* ----------------------------------------------------- country_config.py
\* A text is a sequence of words and "," (anything that is not a letter),
\* written with one blank between them. The tables keep the entries the
\* words of the model can reach, in the order of the source.
MARKET_A == {"canada", "japan", "united states"}
MARKET_B == {"brazil"}
MARKET_C_KNOWN == {"india"}
MARKET_RATE == [m \in {"A", "B", "C"} |->
                   CASE m = "A" -> 163 [] m = "B" -> 116 [] OTHER -> 70]

\* the dicts, as the ordered lists of their items
ISO2_TO_NAME == << <<"CA", "canada">>, <<"JP", "japan">>, <<"US", "united states">>,
                   <<"BR", "brazil">>, <<"IN", "india">> >>
ISO3_TO_NAME == << <<"CAN", "canada">>, <<"JPN", "japan">>, <<"USA", "united states">>,
                   <<"BRA", "brazil">>, <<"IND", "india">> >>
ALIASES == << <<"usa", "united states">>, <<"us", "united states">> >>

\* the words of a text: codes in both cases, a common lowercase word ("in"),
\* names, two misspelt names, and the comma
Vocabulary == {"US", "us", "IN", "in", "can", "india", "japan", "canada",
               "brazil", "canda", "brazl", ","}

MaxWords == 2

MarketTexts == UNION {[1..n -> Vocabulary] : n \in 0..MaxWords}

\* str.lower() of a word
Lower(w) ==
    CASE w = "US" -> "us" [] w = "IN" -> "in" [] w = "CAN" -> "can"
      [] w = "JPN" -> "jpn" [] w = "USA" -> "usa" [] w = "BRA" -> "bra"
      [] w = "IND" -> "ind" [] OTHER -> w

\* len() of a lowercase string
StrLen(w) ==
    CASE w = "," -> 1
      [] w \in {"us", "in"} -> 2
      [] w \in {"can", "usa"} -> 3
      [] w \in {"india", "japan", "canda", "brazl"} -> 5
      [] w \in {"canada", "brazil"} -> 6
      [] OTHER -> 13

\* _classify_market(canon)
ClassifyMarket(canon) ==
    IF canon \in MARKET_A THEN "A"
    ELSE IF canon \in MARKET_B THEN "B"
    ELSE IF canon \in MARKET_C_KNOWN THEN "C"
    ELSE "KeyError"

\* faulty variant: every recognised country gets the rate of tier A
ResolvedAtTopRate(canon, stage) ==
    [country |-> canon,
     market |-> IF ClassifyMarket(canon) = "KeyError" THEN "C" ELSE ClassifyMarket(canon),
     rate |-> PyInt(MARKET_RATE["A"]), stage |-> stage]

\* the try/except around _classify_market at each stage: the triple of a
\* matched canonical country; stage records which stage returned
Resolved(canon, stage) ==
    LET market == ClassifyMarket(canon)
    IN IF market = "KeyError"
       THEN [country |-> canon, market |-> "C", rate |-> PyInt(MARKET_RATE["C"]),
             stage |-> stage]
       ELSE [country |-> canon, market |-> market, rate |-> PyInt(MARKET_RATE[market]),
             stage |-> stage]

\* re.search(rf"\b{term}\b", text) for a term of one word
Found(term, words) == \E i \in DOMAIN words : words[i] = term

RECURSIVE FirstFound(_, _, _)
\* the loop over the items of a dict: the canonical name of the first key
\* found in the text, None when no key is found; lower says whether the key
\* is lowercased first
FirstFound(items, words, lower) ==
    IF items = << >> THEN None
    ELSE LET code == IF lower THEN Lower(Head(items)[1]) ELSE Head(items)[1]
         IN IF Found(code, words) THEN Head(items)[2]
            ELSE FirstFound(Tail(items), words, lower)

\* faulty variant: the two-letter codes are looked up in the lowercased text
Iso2StageAnyCase(text) ==
    FirstFound(ISO2_TO_NAME, [i \in DOMAIN text |-> Lower(text[i])], TRUE)

\* stage 1: the two-letter codes, in the text as written
Iso2Stage(text) == FirstFound(ISO2_TO_NAME, text, FALSE)

\* stage 2: the three-letter codes, lowercased, in the lowercased text
Iso3Stage(low) == FirstFound(ISO3_TO_NAME, low, TRUE)

\* set(list(ALIASES.keys()) + names)
Terms ==
    {ALIASES[i][1] : i \in DOMAIN ALIASES} \cup MARKET_A \cup MARKET_B \cup MARKET_C_KNOWN

\* ALIASES.get(term, term)
AliasOf(term) ==
    IF \E i \in DOMAIN ALIASES : ALIASES[i][1] = term
    THEN ALIASES[CHOOSE i \in DOMAIN ALIASES : ALIASES[i][1] = term][2]
    ELSE term

\* a comes before b in sorted(set, key=len, reverse=True) of a process whose
\* sets yield first[{a, b}] first
Before(first, a, b, la, lb) ==
    \/ la > lb
    \/ la = lb /\ a # b /\ {a, b} \in TiePairs /\ first[{a, b}] = a

\* stage 3: the first term of the sorted list found in the lowercased text
TermStage(low, first) ==
    LET found == {t \in Terms : Found(t, low)}
    IN IF found = {} THEN None
       ELSE AliasOf(CHOOSE t \in found :
                \A u \in found \ {t} : Before(first, t, u, StrLen(t), StrLen(u)))

RECURSIVE Windows(_, _)
\* re.findall(r"[a-z]+(?:\s+[a-z]+){0,2}", low): runs of up to three words,
\* from the left; cur is the run being read
Windows(low, cur) ==
    LET closed == IF cur = << >> THEN {} ELSE {cur}
    IN IF low = << >> THEN closed
       ELSE IF Head(low) = "," THEN closed \cup Windows(Tail(low), << >>)
       ELSE IF Len(cur) = 3 THEN closed \cup Windows(Tail(low), <<Head(low)>>)
       ELSE Windows(Tail(low), Append(cur, Head(low)))

\* len() of a window: its words and the blanks between them
WindowLen(w) ==
    IF Len(w) = 1 THEN StrLen(w[1])
    ELSE IF Len(w) = 2 THEN StrLen(w[1]) + 1 + StrLen(w[2])
    ELSE StrLen(w[1]) + 1 + StrLen(w[2]) + 1 + StrLen(w[3])

\* get_close_matches(w, candidates, n=1, cutoff=0.86) of difflib, for the
\* windows of the model's words: a term matches itself, "canda" is 0.91 close
\* to "canada" and "brazl" to "brazil", no other window reaches 0.86
FuzzyHit(w) ==
    IF Len(w) # 1 THEN None
    ELSE IF w[1] \in Terms THEN w[1]
    ELSE IF w[1] = "canda" THEN "canada"
    ELSE IF w[1] = "brazl" THEN "brazil"
    ELSE None

\* stage 4: the first window of the sorted list that has a close match
FuzzyStage(low, first) ==
    LET hits == {w \in Windows(low, << >>) : FuzzyHit(w) # None}
    IN IF hits = {} THEN None
       ELSE AliasOf(FuzzyHit(CHOOSE w \in hits :
                \A u \in hits \ {w} :
                    Before(first, w[1], u[1], WindowLen(w), WindowLen(u))))

\* resolve_market_from_text(text), fuzzy=True, in a process whose sets
\* yield first
ResolveMarketFromText(text, first) ==
    LET low == [i \in DOMAIN text |-> Lower(text[i])]
    IN IF text = << >> THEN NoneTriple
       ELSE IF Iso2Stage(text) # None THEN Resolved(Iso2Stage(text), 1)
       ELSE IF Iso3Stage(low) # None THEN Resolved(Iso3Stage(low), 2)
       ELSE IF TermStage(low, first) # None THEN Resolved(TermStage(low, first), 3)
       ELSE IF FuzzyStage(low, first) # None THEN Resolved(FuzzyStage(low, first), 4)
       ELSE NoneTriple

\* a worker process starts: Python draws the hash seed, which fixes the order
\* its sets of strings are iterated in
MStart(p, first) ==
    /\ ~mkt.proc[p].started
    /\ mkt' = [mkt EXCEPT !.proc[p].started = TRUE, !.proc[p].first = first]
    /\ UNCHANGED <<backend, now, redis, store, wk, hist, expired, appends, turn, srch, cfg, ctx>>

\* a text arrives to be resolved
MCall(text) ==
    /\ \A p \in Procs : mkt.proc[p].started
    /\ ~mkt.called
    /\ mkt' = [mkt EXCEPT !.called = TRUE, !.text = text]
    /\ UNCHANGED <<backend, now, redis, store, wk, hist, expired, appends, turn, srch, cfg, ctx>>

\* process p evaluates resolve_market_from_text on the text
MResolve(p) ==
    /\ mkt.called
    /\ ~mkt.proc[p].done
    /\ mkt' = [mkt EXCEPT !.proc[p].done = TRUE,
                          !.proc[p].out = ResolveMarketFromText(mkt.text, mkt.proc[p].first)]
    /\ UNCHANGED <<backend, now, redis, store, wk, hist, expired, appends, turn, srch, cfg, ctx>>

\* the callers have their results; the resolver keeps nothing of the call
MReturn ==
    /\ mkt.called
    /\ \A p \in Procs : mkt.proc[p].done
    /\ mkt' = [mkt EXCEPT !.called = FALSE, !.text = << >>,
                          !.proc = [p \in Procs |->
                                       [@[p] EXCEPT !.done = FALSE, !.out = NoneTriple]]]
    /\ UNCHANGED <<backend, now, redis, store, wk, hist, expired, appends, turn, srch, cfg, ctx>>

MStarts ==
    \E p \in {q \in Procs : ~mkt.proc[q].started} : \E first \in SetOrder : MStart(p, first)

MCalls ==
    /\ ~mkt.called
    /\ \E text \in MarketTexts : MCall(text)

MResolves ==
    /\ mkt.called
    /\ \E p \in Procs : MResolve(p)

NextMarket ==
    \/ MStarts
    \/ MCalls
    \/ MResolves
    \/ MReturn

SpecMarket == InitRedis /\ [][NextMarket]_vars

\* ---------------------------------------------- llm.py, get_config_by_llm
\* a form field: its name and its "Value" (missing when it has none)
Field(name, value) == [field_name |-> name, Value |-> value]

Acv == Field("acv", PyMissing)

\* a workshop engagement: a dict with or without "form_fields", or a bare
\* string in a patch that only names the engagement
Eng(kind, has_ff, ffs) == [kind |-> kind, has_ff |-> has_ff, form_fields |-> ffs]

\* CALCULATIONS_CONFIG: two workshop engagements without a market_rate field
Catalog ==
    Obj({"workshop", "csp_transaction", "spd_eligibility"},
        <<Eng("dict", TRUE, <<Acv>>), Eng("dict", TRUE, <<Acv>>)>>)

\* a pending config: a patch an earlier call has returned
Pending == Obj({"workshop"}, <<Eng("dict", TRUE, <<Acv, Field("market_rate", PyInt(163))>>)>>)

Configs == {Catalog, Pending}

\* the user messages, as words
CfgMessages == {<<"workshop">>, <<"workshop", "canada">>, <<"workshop", "in", "india">>,
                <<"canada">>, <<"spd", "canada">>, <<"csp">>}

\* what json.loads(msg.content) can give
LlmPatches ==
    {Obj({}, << >>),
     Obj({"workshop"}, <<Eng("dict", TRUE, <<Acv>>)>>),
     Obj({"workshop"}, <<Eng("dict", FALSE, << >>)>>),
     Obj({"workshop"}, <<Eng("dict", TRUE, <<Acv, Field("Market_Rate", PyInt(0))>>)>>),
     Obj({"workshop"}, <<Eng("dict", TRUE, <<Field("market_rate", PyInt(0)),
                                            Field("market_rate", PyInt(0))>>)>>),
     Obj({"workshop"}, <<Eng("dict", TRUE, <<Acv>>), Eng("str", FALSE, << >>)>>)}

\* llm.invoke raises, returns text that is no JSON, or returns a patch
LlmOutcomes ==
    {[kind |-> k, patch |-> Obj({}, << >>)] : k \in {"raise", "notjson"}}
        \cup {[kind |-> "patch", patch |-> q] : q \in LlmPatches}

\* (fld.get("field_name") or "").strip().lower()
FieldNameNorm(name) == IF name = "Market_Rate" THEN "market_rate" ELSE name

MarketRateField(rate) == Field("market_rate", rate)

\* lines 258-271: the first market_rate field gets the rate, or a field is
\* appended; eng["form_fields"] = ffs
InjectNormal(eng, rate) ==
    LET ffs == IF eng.has_ff THEN eng.form_fields ELSE << >>
        named == {i \in DOMAIN ffs : FieldNameNorm(ffs[i].field_name) = "market_rate"}
    IN [eng EXCEPT !.has_ff = TRUE,
                   !.form_fields =
                       IF named = {} THEN Append(ffs, MarketRateField(rate))
                       ELSE [ffs EXCEPT ![CHOOSE i \in named : \A j \in named : i <= j].Value = rate]]

\* lines 300-308: a field is appended whatever the engagement holds
InjectFallback(eng, rate) ==
    [eng EXCEPT !.has_ff = TRUE,
                !.form_fields = Append(IF eng.has_ff THEN eng.form_fields ELSE << >>,
                                       MarketRateField(rate))]

\* json.dumps: the JSON text of a config; json.loads: a new object with the
\* content of a JSON text
Dumps(v) == [json |-> v]
Loads(text) == text.json

\* faulty variant: the fallback works on the caller's object
LoadConfigAliases(heap) == [cell |-> "config", heap |-> heap]

\* lines 191 and 279: _json_compact(config) for a dict, the text itself for
\* a str, then json.loads of that text: cfg is a new object
LoadConfig(heap) ==
    [cell |-> "local", heap |-> [heap EXCEPT !.local = Loads(Dumps(heap.config))]]

\* "k in m" for the keywords of the fallback
Mentions(m, keywords) == \E i \in DOMAIN m : m[i] \in keywords

\* lines 276-309: the fallback, on the config alone
Fallback(c, rate) ==
    LET loaded == LoadConfig(c.heap)
        obj == loaded.heap[loaded.cell]
        m == [i \in DOMAIN c.message |-> Lower(c.message[i])]
        engs == IF "workshop" \in obj.keys THEN obj.workshop ELSE << >>
        injected == [i \in DOMAIN engs |-> InjectFallback(engs[i], rate)]
        done == [c EXCEPT !.pc = "done", !.path = "fallback", !.heap = loaded.heap]
    IN IF Mentions(m, {"spd", "eligib", "qualif"})
       THEN LET spd == IF "spd_eligibility" \in obj.keys
                       THEN Obj({"spd_eligibility"}, << >>)
                       ELSE Obj({}, << >>)
            IN [done EXCEPT !.ret = spd, !.plain = spd]
       ELSE IF Mentions(m, {"workshop"})
       THEN IF rate = PyNone
            THEN [done EXCEPT !.ret = Obj({"workshop"}, engs),
                              !.plain = Obj({"workshop"}, engs)]
            ELSE [done EXCEPT !.rate = rate,
                              !.plain = Obj({"workshop"}, engs),
                              !.ret = Obj({"workshop"}, injected),
                              !.heap[loaded.cell].workshop = injected]
       ELSE IF Mentions(m, {"csp", "transaction", "usage", "workload", "billed",
                            "tier", "core", "growth"})
       THEN [done EXCEPT !.ret = Obj({"csp_transaction"}, << >>),
                         !.plain = Obj({"csp_transaction"}, << >>)]
       ELSE done

\* lines 250-309: get_config_by_llm from the answer of the model on; plain
\* is the patch before any market_rate is put in
GetConfigByLlm(c, outcome, first) ==
    LET rate == ResolveMarketFromText(c.message, first).rate
        patch == outcome.patch
    IN IF outcome.kind # "patch" THEN Fallback(c, rate)
       ELSE IF "workshop" \notin patch.keys \/ rate = PyNone
       THEN [c EXCEPT !.pc = "done", !.path = "normal", !.ret = patch, !.plain = patch]
       ELSE IF \E i \in DOMAIN patch.workshop : patch.workshop[i].kind # "dict"
       THEN Fallback(c, rate)
       ELSE [c EXCEPT !.pc = "done", !.path = "normal", !.rate = rate,
                      !.plain = patch,
                      !.ret = Obj(patch.keys,
                                  [i \in DOMAIN patch.workshop |->
                                      InjectNormal(patch.workshop[i], rate)])]

\* lines 182-249: the call; config is a dict or the JSON text of one
GCall(config, ctype, message) ==
    /\ cfg.pc = "idle"
    /\ cfg' = [NoCfg EXCEPT !.pc = "invoke", !.ctype = ctype, !.message = message,
                            !.heap.config = config, !.before = config]
    /\ UNCHANGED <<backend, now, redis, store, wk, hist, expired, appends, turn, srch, mkt, ctx>>

\* lines 250-309: the model answers or raises, and the call returns
GInvoke(outcome, first) ==
    /\ cfg.pc = "invoke"
    /\ cfg' = GetConfigByLlm(cfg, outcome, first)
    /\ UNCHANGED <<backend, now, redis, store, wk, hist, expired, appends, turn, srch, mkt, ctx>>

\* the caller has the patch
GReturn ==
    /\ cfg.pc = "done"
    /\ cfg' = NoCfg
    /\ UNCHANGED <<backend, now, redis, store, wk, hist, expired, appends, turn, srch, mkt, ctx>>

GCalls ==
    /\ cfg.pc = "idle"
    /\ \E config \in Configs, ctype \in {"dict", "str"},
          message \in CfgMessages : GCall(config, ctype, message)

GInvokes ==
    /\ cfg.pc = "invoke"
    /\ \E outcome \in LlmOutcomes, first \in SetOrder : GInvoke(outcome, first)

NextConfig ==
    \/ GCalls
    \/ GInvokes
    \/ GReturn

SpecConfig == InitRedis /\ [][NextConfig]_vars

\* ------------------------------------------------ llm.py, _build_context
LLM_CTX_N == 10
LLM_CTX_MAX_CHARS == 40000

\* len("\n---[TRUNCATED]---\n") and the margin kept for it
MarkLen == 19
MarkMargin == 32

MaxFused == 3

\* a hit, by the lengths of what goes into its block: "src:file:loc", the
\* content and the compact JSON of the metadata
CtxHits == {[head |-> 2, content |-> c, meta |-> 2] : c \in {0, 30, 80, 40000}}

FusedLists == UNION {[1..n -> CtxHits] : n \in 0..MaxFused}

CtxNs == {0, 1, 2, LLM_CTX_N}

CtxBudgets == {20, MarkMargin, 100, LLM_CTX_MAX_CHARS}

\* len(block) of line 59 for the i-th hit, i below 10:
\* "[i] " head "\nCONTENT: " content "\nMETADATA: " meta "\n---\n"
BlockLen(i, r) == 4 + r.head + 10 + r.content + 11 + r.meta + 5

\* faulty variant: the block is cut at the budget itself
CutLenAtBudget(len, ctx_max_chars) == Min(len, ctx_max_chars) + MarkLen

\* len(block[:ctx_max_chars - 32] + "\n---[TRUNCATED]---\n"): a negative
\* bound counts from the end of the block
CutLen(len, ctx_max_chars) ==
    LET cut == ctx_max_chars - MarkMargin
    IN (IF cut >= 0 THEN Min(len, cut) ELSE IF len + cut > 0 THEN len + cut ELSE 0)
       + MarkLen

RECURSIVE BuildLines(_, _, _, _, _)
\* the loop of lines 51-68 from the i-th hit on: lines so far and used
BuildLines(hits, i, ctx_max_chars, lines, used) ==
    IF i > Len(hits) THEN lines
    ELSE LET len == BlockLen(i, hits[i])
         IN IF used + len > ctx_max_chars
            THEN IF used = 0
                 THEN Append(lines, [no |-> i, len |-> CutLen(len, ctx_max_chars),
                                     cut |-> TRUE])
                 ELSE lines
            ELSE BuildLines(hits, i + 1, ctx_max_chars,
                            Append(lines, [no |-> i, len |-> len, cut |-> FALSE]),
                            used + len)

\* _build_context(fused, ctx_n, ctx_full=True, ctx_max_chars)
BCall(fused, ctx_n, ctx_max_chars) ==
    /\ ctx.pc = "idle"
    /\ LET lines == BuildLines(PySliceTo(fused, ctx_n), 1, ctx_max_chars, << >>, 0)
       IN ctx' = [pc |-> "done", fused |-> fused, ctx_n |-> ctx_n,
                  ctx_max_chars |-> ctx_max_chars, lines |-> lines,
                  none |-> (lines = << >>)]
    /\ UNCHANGED <<backend, now, redis, store, wk, hist, expired, appends, turn, srch, mkt, cfg>>

\* the caller has the text
BReturn ==
    /\ ctx.pc = "done"
    /\ ctx' = NoCtx
    /\ UNCHANGED <<backend, now, redis, store, wk, hist, expired, appends, turn, srch, mkt, cfg>>

BCalls ==
    /\ ctx.pc = "idle"
    /\ \E fused \in FusedLists, ctx_n \in CtxNs, ctx_max_chars \in CtxBudgets :
          BCall(fused, ctx_n, ctx_max_chars)

NextContext ==
    \/ BCalls
    \/ BReturn

SpecContext == InitRedis /\ [][NextContext]_vars

\* ================================================================ claims
\* the last min(n, Len(l)) items of l, in order
LastN(l, n) ==
    LET m == Min(n, Len(l))
    IN [i \in 1..m |-> l[Len(l) - m + i]]

\* the session record of the store in use
Session(s) == IF backend = "mem" THEN store[s] ELSE redis[s]
\* the same after the step
SessionNext(s) == IF backend' = "mem" THEN store'[s] ELSE redis'[s]

\* C1: with one caller, the stored list of every session equals the last
\* min(6, number appended) of the messages appended to it, in the order
\* appended, in the in-memory store and in the Redis store.
C1_StoredIsLastSix ==
    \A s \in Sids :
        Session(s).has =>
            /\ Session(s).val = LastN(hist[s], CAP)
            /\ Len(Session(s).val) <= CAP

\* more than 6 messages, not all alike, were appended to one Redis session
C1_Witness ==
    \E s \in Sids :
        /\ backend = "redis"
        /\ redis[s].has
        /\ Len(hist[s]) > CAP
        /\ Len(redis[s].val) = CAP
        /\ hist[s][1].text # hist[s][2].text
        /\ wk[Caller].pc = "done"

\* two workers that are both past the SET of an append to the same session
BothWrote(s) ==
    \A w \in Workers :
        /\ wk[w].fn = "append"
        /\ wk[w].sid = s
        /\ wk[w].pc \in {"app_expire", "done"}

\* C2: when two concurrent appends to one session both read the same stored
\* list before either writes, the list left after both writes is the list
\* read plus the later writer's message only: the other message is lost.
C2_LostUpdate ==
    \A s \in Sids :
        (BothWrote(s) /\ wk["w1"].raw = wk["w2"].raw /\ redis[s].has) =>
            /\ Len(hist[s]) >= 2
            /\ redis[s].val = LastN(Append(wk["w1"].raw.val, hist[s][Len(hist[s])]), CAP)
            /\ Len(redis[s].val) = Len(wk["w1"].raw.val) + 1

\* both appends have finished, no key ever expired, two messages were
\* appended and the stored list holds one
C2_Witness ==
    \E s \in Sids :
        /\ \A w \in Workers : wk[w].fn = "append" /\ wk[w].sid = s /\ wk[w].pc = "done"
        /\ wk["w1"].raw = wk["w2"].raw
        /\ wk["w1"].text # wk["w2"].text
        /\ now = 0
        /\ ~expired[s]
        /\ Len(hist[s]) = 2
        /\ redis[s].has
        /\ Len(redis[s].val) = 1

\* C3: the step that completes ensure_session or append_message leaves the
\* session key with a time-to-live of the full 6 hours from that moment.
C3_TtlResetOnWrite ==
    [][\A w \in Workers :
          (wk[w].pc \in {"ens_expire", "app_expire"} /\ wk'[w].pc = "done") =>
              /\ redis'[wk[w].sid].has
              /\ redis'[wk[w].sid].exp = now' + TTL]_vars

\* a step of ensure_session made by w
EnsureStep(w) ==
    \/ wk[w].pc = "idle" /\ wk'[w].fn = "ensure"
    \/ wk[w].pc \in {"ens_setnx", "ens_expire"} /\ wk'[w].pc # wk[w].pc

\* C4: ensure_session without an identifier mints one that no existing session
\* has and creates that session empty; with an identifier it returns the same
\* identifier; no step of ensure_session removes or alters a stored list.
C4_EnsureKeepsMessages ==
    [][\A w \in Workers :
          EnsureStep(w) =>
              /\ \A s \in Sids :
                    Session(s).has => (SessionNext(s).has /\ SessionNext(s).val = Session(s).val)
              /\ (wk[w].pc = "idle" /\ wk'[w].minted) => ~Session(wk'[w].sid).has
              /\ wk'[w].pc = "done" =>
                    /\ wk'[w].ret = RetSid(wk'[w].sid)
                    /\ SessionNext(wk'[w].sid).has
                    /\ wk'[w].minted => SessionNext(wk'[w].sid).val = << >>]_vars

\* ensure_session has returned for an identifier whose session holds messages
C4_Witness ==
    /\ wk[Caller].pc = "done"
    /\ wk[Caller].fn = "ensure"
    /\ ~wk[Caller].minted
    /\ backend = "redis"
    /\ Session(wk[Caller].sid).has
    /\ Len(Session(wk[Caller].sid).val) >= 2

\* C5: get_tail(session_id, n) returns the last n stored messages, all of
\* them when fewer are stored, none for a session that does not exist.
C5_TailIsLastN ==
    \A w \in Workers :
        (wk[w].pc = "done" /\ wk[w].fn = "tail") =>
            wk[w].ret = RetList(LastN(wk[w].raw.val, wk[w].n))

\* the decision call of the turn has been made
Decided == \E k \in 1..Len(turn.log) : turn.log[k] = "decide"
\* the synthesis call of the turn has been made
Synthesized == \E k \in 1..Len(turn.log) : turn.log[k] = "answer"

\* C6: when llm_decide raises, the turn goes on with the decision {mode
\* clarify, pick None, confidence 0.0, followup {generic re-ask, no options}}
\* and answers with a clarify response carrying that message; no exception
\* and no error response comes out of it.
C6_DecideFailureClarifies ==
    turn.decide_raised =>
        /\ turn.decision.mode = "clarify"
        /\ turn.decision.pick = PyNone
        /\ turn.decision.confidence = PyFloat(0)
        /\ turn.decision.followup.message = PyStr(MsgClarifyOneSentence)
        /\ turn.decision.followup.options = PyList(<< >>)
        /\ turn.pc = "done"
        /\ turn.resp.type = "clarify"
        /\ turn.resp.session_id = turn.sid
        /\ turn.resp.message = PyStr(MsgClarifyOneSentence)
        /\ turn.resp.options = PyMissing
        /\ ~Synthesized

\* llm_decide raised and the turn has answered
C6_Witness ==
    /\ turn.decide_raised
    /\ turn.pc = "done"
    /\ turn.resp.type = "clarify"
    /\ Len(turn.hits) = MaxHits

\* the pick of a decision when it is an integer within 1..n, else 1
ValidPickOrOne(pick, n) ==
    IF pick.t = "int" /\ pick.i >= 1 /\ pick.i <= n THEN pick.i ELSE 1

\* C7: when the decision's mode is answer, the passage handed to synthesis is
\* hits[pick-1] for a pick within 1..len(hits), hits[0] for any other pick;
\* the passages shown to the decision call are those hits, in the same number
\* and order; the turn does not end in an IndexError.
C7_PickResolves ==
    (Decided /\ turn.decision.mode = "answer") =>
        /\ turn.resp.error # "IndexError"
        /\ turn.chosen = ValidPickOrOne(turn.decision.pick, Len(turn.hits))
        /\ turn.chosen >= 1
        /\ turn.chosen <= Len(turn.hits)
        /\ Len(turn.passages) = Len(turn.hits)
        /\ \A k \in 1..Len(turn.hits) : turn.passages[k].title = turn.hits[k].title
        /\ turn.pc = "done" => (turn.resp.type = "answer" =>
               turn.resp.engagement = PyStr(turn.hits[turn.chosen].title))

\* a decision of mode answer picked beyond the two hits and the answer was
\* synthesized from the first
C7_Witness ==
    /\ turn.pc = "done"
    /\ turn.decision.mode = "answer"
    /\ turn.decision.pick = PyInt(MaxHits + 1)
    /\ Len(turn.hits) = MaxHits
    /\ turn.chosen = 1
    /\ turn.resp.type = "answer"

\* C8: a decision of mode clarify or not_understood whose followup is missing,
\* None, without a message, or with an empty or blank message yields a clarify
\* response with a non-empty message.
C8_ClarifyMessageNonEmpty ==
    (/\ Decided
     /\ turn.decision.mode \in {"clarify", "not_understood"}
     /\ turn.decision.followup.t \in {"missing", "none", "dict"}) =>
        /\ turn.pc = "done"
        /\ turn.resp.type = "clarify"
        /\ turn.resp.message.t = "str"
        /\ turn.resp.message.s # << >>

\* C9: a decision whose mode is missing or none of answer, clarify and
\* not_understood yields a clarify response with the generic re-ask message,
\* and answer synthesis is not called.
C9_UnknownModeClarifies ==
    (Decided /\ turn.decision.mode \notin {"answer", "clarify", "not_understood"}) =>
        /\ turn.pc = "done"
        /\ turn.resp.type = "clarify"
        /\ turn.resp.session_id = turn.sid
        /\ turn.resp.message = PyStr(MsgClarifyOneSentence)
        /\ ~Synthesized

\* a decision without a mode was answered
C9_Witness ==
    /\ Decided
    /\ ~turn.decide_raised
    /\ turn.decision.mode = "<none>"
    /\ turn.pc = "done"
    /\ turn.resp.type = "clarify"

\* C10: the confidence of an answer response is float(confidence) of the
\* decision, 0.0 when that value is missing or cannot be converted; the turn
\* does not fail on it.
C10_ConfidenceCoerced ==
    (/\ turn.pc = "done"
     /\ turn.out # << >>
     /\ ~StartsWith(turn.out, "CLARIFY:")) =>
        /\ turn.resp.type = "answer"
        /\ turn.resp.confidence =
              PyFloat(IF FloatOf(turn.decision.confidence).ok
                      THEN FloatOf(turn.decision.confidence).v ELSE 0)

\* the turn was accepted by the request validation and has ended
Ended == turn.pc = "done" /\ turn.resp.type # "<rejected>"
\* a call of the turn, by its name in the log, has been made
Called(c) == \E k \in 1..Len(turn.log) : turn.log[k] = c

\* C11: every accepted turn ends with a response of type answer, clarify,
\* not_found or error that carries the turn's session_id; none ends in an
\* exception that leaves post_message.
C11_TypedResponse ==
    Ended =>
        /\ turn.resp.type \in {"answer", "clarify", "not_found", "error"}
        /\ turn.resp.session_id = turn.sid

\* C12: when vector_search raises, the turn ends with type error and error
\* db_search_failed; when it returns no hits, the turn ends with type
\* not_found; in both cases neither llm_decide nor llm_answer is called.
C12_SearchFailureIsError ==
    /\ "search" \in turn.raised =>
          /\ turn.pc = "done"
          /\ turn.resp.type = "error"
          /\ turn.resp.error = "db_search_failed"
          /\ turn.resp.session_id = turn.sid
          /\ ~Decided /\ ~Synthesized
    /\ (Called("search") /\ "search" \notin turn.raised /\ turn.hits = << >>) =>
          /\ turn.pc = "done"
          /\ turn.resp.type = "not_found"
          /\ turn.resp.error = ""
          /\ turn.resp.session_id = turn.sid
          /\ ~Decided /\ ~Synthesized

\* vector_search raised in a turn whose text names a field
C12_Witness ==
    /\ "search" \in turn.raised
    /\ turn.field # None
    /\ turn.pc = "done"
    /\ turn.resp.type = "error"

\* C13: in every turn that makes a session, embedding, search or completion
\* call the query text (stripped text plus stripped selection) is non-empty;
\* a turn with an empty text makes no call and writes no session.
C13_NoCallOnEmptyQuery ==
    /\ turn.log # << >> => QueryText(turn.text, turn.selection) # << >>
    /\ (turn.pc # "idle" /\ turn.text = << >>) =>
          /\ turn.log = << >>
          /\ \A s \in Sids : ~redis[s].has

\* C14: when embed raises, the turn ends with type error and error
\* llm_embed_failed and makes no search, decision or synthesis call; when
\* llm_answer raises, it ends with type error and error llm_answer_failed;
\* the detail of an error response has at most 200 characters.
C14_LlmFailureIsError ==
    /\ "embed" \in turn.raised =>
          /\ turn.pc = "done"
          /\ turn.resp.type = "error"
          /\ turn.resp.error = "llm_embed_failed"
          /\ ~Called("search") /\ ~Decided /\ ~Synthesized
    /\ "answer" \in turn.raised =>
          /\ turn.pc = "done"
          /\ turn.resp.type = "error"
          /\ turn.resp.error = "llm_answer_failed"
    /\ turn.resp.type = "error" =>
          /\ turn.resp.detail >= 0
          /\ turn.resp.detail <= 200

\* llm_answer raised and the detail of the response is 200 characters long
C14_Witness ==
    /\ "answer" \in turn.raised
    /\ turn.pc = "done"
    /\ turn.resp.error = "llm_answer_failed"
    /\ turn.resp.detail = 200

\* C15: an output of llm_answer that starts with CLARIFY: gives a clarify
\* response with the text after the prefix; any other output gives an answer
\* response whose text is the output without a leading ANSWER:.
C15_OutputPrefix ==
    (turn.pc = "done" /\ turn.out # << >>) =>
        IF StartsWith(turn.out, "CLARIFY:")
        THEN /\ turn.resp.type = "clarify"
             /\ turn.resp.message = PyStr(Strip(Tail(turn.out)))
        ELSE /\ turn.resp.type = "answer"
             /\ turn.resp.text =
                   PyStr(Strip(IF StartsWith(turn.out, "ANSWER:")
                               THEN Tail(turn.out) ELSE turn.out))

\* the calls of the completion service made by the turn, in order
CompletionCalls == SelectSeq(turn.log, LAMBDA c : c \in {"decide", "answer"})

Retrieved == srch.pc = "done" /\ srch.mode = "hybrid"
\* the records either ranking holds
Fusable == Candidates(srch.vrows, srch.frows)
\* 1/(60 + rank) for a ranking that holds the record at rank, 0 otherwise
Reciprocal(rows, id) ==
    IF \E i \in 1..Len(rows) : rows[i].id = id
    THEN [n |-> 1, d |-> 60 + (CHOOSE i \in 1..Len(rows) : rows[i].id = id)]
    ELSE [n |-> 0, d |-> 1]
\* the fused score of a record
RrfScore(id) == FracSum(Reciprocal(srch.vrows, id), Reciprocal(srch.frows, id))
\* a list of records holds the top_k best of the fusable records, best first,
\* each once
BestFirst(list, top_k) ==
    /\ Len(list) = Min(top_k, Cardinality(Fusable))
    /\ \A i \in 1..Len(list) : list[i].id \in Fusable
    /\ \A i, j \in 1..Len(list) :
          i < j => /\ list[i].id # list[j].id
                   /\ ~FracGreater(RrfScore(list[j].id), RrfScore(list[i].id))
    /\ \A c \in Fusable \ {list[i].id : i \in 1..Len(list)} :
          \A i \in 1..Len(list) : ~FracGreater(RrfScore(c), RrfScore(list[i].id))

\* C17: _rrf_fuse returns the records of either ranking by falling score, the
\* score of a record being the sum of 1/(60 + rank) over the rankings that
\* hold it, cut to top_k, each record once, with the content, metadata, sim and
\* lex of its rows.
C17_FusedByRrfScore ==
    Retrieved =>
        /\ BestFirst(srch.fused, srch.top_k)
        /\ \A i \in 1..Len(srch.fused) :
              LET r == srch.fused[i]
              IN /\ r.metadata = MetaOf(r.id)
                 /\ (r.sim = NoVal) <=> (\A k \in 1..Len(srch.vrows) : srch.vrows[k].id # r.id)
                 /\ (r.lex = NoVal) <=> (\A k \in 1..Len(srch.frows) : srch.frows[k].id # r.id)

\* the fused list was cut to top_k and holds a record of both rankings and
\* a record of the vector ranking only
C17_Witness ==
    /\ Retrieved
    /\ srch.top_k < Cardinality(Fusable)
    /\ Len(srch.fused) >= 2
    /\ \E i, j \in 1..Len(srch.fused) :
          /\ srch.fused[i].sim # NoVal /\ srch.fused[i].lex # NoVal
          /\ srch.fused[j].sim # NoVal /\ srch.fused[j].lex = NoVal

\* the logical key of a hit, from its metadata
LogicalKey(m) ==
    IF m.engagement_name # "" \/ m.field # ""
    THEN <<"engagement", m.engagement_name, m.field>>
    ELSE <<"document", m.doc_name, m.section_path>>

\* C19: the sources of the hybrid retrieval hold at most one hit for each
\* logical key: (engagement_name, field) when either is non-empty, else
\* (doc_name, section_path).
C19_OneHitPerLogicalKey ==
    Retrieved =>
        \A i, j \in 1..Len(srch.sources) :
            i # j => LogicalKey(srch.sources[i].metadata) # LogicalKey(srch.sources[j].metadata)

\* C20 as stated: the sources are the top_k best fused hits, best first, all
\* of them when there are fewer, and returned is their number.
C20_ReturnsTopK ==
    Retrieved =>
        /\ BestFirst(srch.sources, srch.top_k)
        /\ srch.returned = Len(srch.sources)

\* C20 amended: the sources are the min(top_k, 8) best fused hits, best first,
\* all of them when there are fewer, and returned is their number.
C20_ReturnsTopKCapped ==
    Retrieved =>
        /\ BestFirst(srch.sources, Min(srch.top_k, 8))
        /\ srch.returned = Len(srch.sources)

\* a budget of 15 and ten fusable records gave 8 sources
C20_Witness ==
    /\ Retrieved
    /\ srch.top_k = 15
    /\ Cardinality(Fusable) > 8
    /\ srch.returned = 8
    /\ Len(srch.sources) = 8

\* ------------------------------------------------- the market resolver
\* process p has evaluated the text
Evaluated(p) == mkt.called /\ mkt.proc[p].done

LowText == [i \in DOMAIN mkt.text |-> Lower(mkt.text[i])]

\* the countries whose two-letter code is a word of the text as written
Iso2Matches ==
    {ISO2_TO_NAME[i][2] : i \in {j \in DOMAIN ISO2_TO_NAME :
                                    Found(ISO2_TO_NAME[j][1], mkt.text)}}

\* the countries whose three-letter code is a word of the text in any case
Iso3Matches ==
    {ISO3_TO_NAME[i][2] : i \in {j \in DOMAIN ISO3_TO_NAME :
                                    Found(Lower(ISO3_TO_NAME[j][1]), LowText)}}

\* the longest of the names and aliases that are words of the text
LongestTerms ==
    LET found == {t \in Terms : Found(t, LowText)}
    IN {t \in found : \A u \in found : StrLen(u) <= StrLen(t)}

\* the windows of the text that have a close match
FuzzyWindows == {w \in Windows(LowText, << >>) : FuzzyHit(w) # None}

UnitedStates == [country |-> "united states", market |-> "A", rate |-> PyInt(163)]

Triple(out) == [country |-> out.country, market |-> out.market, rate |-> out.rate]

\* C21: the result is that of the earliest stage that has a match, in the
\* order two-letter code as written, three-letter code in any case, longest
\* name or alias, close match; stage 1 returns only for a code written in
\* upper case, so "US" resolves at stage 1 and "us" at stage 3, both to
\* ("united states", "A", 163)
C21_EarliestStageWins ==
    \A p \in Procs : Evaluated(p) =>
        LET out == mkt.proc[p].out
        IN /\ IF Iso2Matches # {}
              THEN out.stage = 1 /\ out.country \in Iso2Matches
              ELSE IF Iso3Matches # {}
              THEN out.stage = 2 /\ out.country \in Iso3Matches
              ELSE IF LongestTerms # {}
              THEN out.stage = 3 /\ out.country \in {AliasOf(t) : t \in LongestTerms}
              ELSE IF FuzzyWindows # {}
              THEN out.stage = 4
                   /\ out.country \in {AliasOf(FuzzyHit(w)) : w \in FuzzyWindows}
              ELSE out.stage = 0
           /\ mkt.text = <<"US">> => out.stage = 1 /\ Triple(out) = UnitedStates
           /\ mkt.text = <<"us">> => out.stage = 3 /\ Triple(out) = UnitedStates

\* "us" has been resolved through the alias stage
C21_Witness ==
    \E p \in Procs :
        /\ Evaluated(p)
        /\ mkt.text = <<"us">>
        /\ mkt.proc[p].out.stage = 3
        /\ mkt.proc[p].out.country = "united states"

\* C22: two evaluations of one text return the same triple, in whichever
\* processes they run
C22_SameTripleInEveryProcess ==
    \A p, q \in Procs :
        Evaluated(p) /\ Evaluated(q) => mkt.proc[p].out = mkt.proc[q].out

\* the tier of a canonical country by membership, and the rate of a tier
TierOf(country) ==
    IF country \in MARKET_A THEN "A" ELSE IF country \in MARKET_B THEN "B" ELSE "C"

RateOf(tier) == CASE tier = "A" -> 163 [] tier = "B" -> 116 [] OTHER -> 70

\* C23: the result is (None, None, None) or a country with the tier its
\* membership gives and the rate of that tier; an empty text and a text that
\* matches at no stage give (None, None, None)
C23_NoneOrFullTriple ==
    \A p \in Procs : Evaluated(p) =>
        LET out == mkt.proc[p].out
        IN /\ \/ out.country = None /\ out.market = None /\ out.rate = PyNone
              \/ /\ out.country # None
                 /\ out.market = TierOf(out.country)
                 /\ out.rate = PyInt(RateOf(out.market))
           /\ (\/ mkt.text = << >>
               \/ /\ Iso2Matches = {} /\ Iso3Matches = {}
                  /\ LongestTerms = {} /\ FuzzyWindows = {})
              => out.country = None /\ out.market = None /\ out.rate = PyNone

\* a country of tier C has been resolved to the rate 70
C23_Witness ==
    \E p \in Procs :
        /\ Evaluated(p)
        /\ mkt.proc[p].out.country = "india"
        /\ mkt.proc[p].out.market = "C"
        /\ mkt.proc[p].out.rate = PyInt(70)

\* --------------------------------------------------- the config patch
\* the form fields of an engagement that are named market_rate
MarketRateFields(eng) ==
    {i \in DOMAIN eng.form_fields :
        FieldNameNorm(eng.form_fields[i].field_name) = "market_rate"}

\* the rate the resolver derives from the message of the call (the messages
\* name one country at most)
MessageRate == ResolveMarketFromText(cfg.message, CHOOSE o \in SetOrder : TRUE).rate

\* C24: when the returned patch has workshop engagements and the message
\* resolves to a rate, each engagement has exactly one market_rate field and
\* its Value is that rate, on the normal and on the fallback path; when no
\* country is found the patch is returned as it was
C24_OneMarketRatePerEngagement ==
    cfg.pc = "done" =>
        /\ "workshop" \in cfg.ret.keys /\ MessageRate # PyNone =>
               \A i \in DOMAIN cfg.ret.workshop :
                   LET eng == cfg.ret.workshop[i]
                   IN /\ Cardinality(MarketRateFields(eng)) = 1
                      /\ \A j \in MarketRateFields(eng) :
                             eng.form_fields[j].Value = MessageRate
        /\ MessageRate = PyNone => cfg.ret = cfg.plain

\* C25: the config object the caller gave holds after the call what it held
\* before, on both paths and with market_rate fields put into the patch
C25_ConfigNotMutated == cfg.pc # "idle" => cfg.heap.config = cfg.before

\* the fallback has returned the catalog's workshops with a market_rate
\* field put in
C25_Witness ==
    /\ cfg.pc = "done"
    /\ cfg.path = "fallback"
    /\ cfg.ctype = "dict"
    /\ cfg.before = Catalog
    /\ "workshop" \in cfg.ret.keys
    /\ \A i \in DOMAIN cfg.ret.workshop : MarketRateFields(cfg.ret.workshop[i]) # {}
    /\ cfg.ret.workshop # cfg.before.workshop

\* --------------------------------------------------- the context text
RECURSIVE SumLen(_)
SumLen(lines) == IF lines = << >> THEN 0 ELSE Head(lines).len + SumLen(Tail(lines))

\* len("(no context)")
NoContextLen == 12

\* the hits the text may show: fused[:ctx_n]
Shown == Min(ctx.ctx_n, Len(ctx.fused))

\* C26: for a budget of 32 characters or more the text is made of the blocks
\* of a prefix of fused[:ctx_n], numbered from 1; it is no longer than the
\* budget; a first block over the budget is cut and marked, a later block
\* that does not fit ends the text; and the text is "(no context)" exactly
\* when it has no block
C26_ContextWithinBudget ==
    ctx.pc = "done" /\ ctx.ctx_max_chars >= MarkMargin =>
        LET lines == ctx.lines
            k == Len(lines)
            whole == [i \in 1..Shown |-> BlockLen(i, ctx.fused[i])]
        IN /\ k <= Shown
           /\ \A i \in 1..k : lines[i].no = i
           /\ \A i \in 1..k :
                 IF lines[i].cut
                 THEN i = 1 /\ k = 1 /\ whole[1] > ctx.ctx_max_chars
                 ELSE lines[i].len = whole[i]
           /\ SumLen(lines) <= ctx.ctx_max_chars
           /\ k < Shown /\ k > 0 => SumLen(lines) + whole[k + 1] > ctx.ctx_max_chars
           /\ k = 0 <=> Shown = 0
           /\ ctx.none <=> k = 0
           /\ ctx.none => NoContextLen <= ctx.ctx_max_chars

\* a first block over the budget has been cut, and so the text has one block
C26_Witness ==
    /\ ctx.pc = "done"
    /\ ctx.ctx_max_chars >= MarkMargin
    /\ Len(ctx.fused) >= 2
    /\ ctx.ctx_n >= 2
    /\ Len(ctx.lines) = 1
    /\ ctx.lines[1].cut

\* ------------------------------------------- what a turn writes and calls
\* the turn has passed line 158, the call of append_message
Appended == turn.pc \notin {"idle", "ensure", "append"} /\ turn.resp.type # "<rejected>"

\* the positions of a call in the log of the turn
CallsOf(c) == {k \in 1..Len(turn.log) : turn.log[k] = c}

\* C27: a turn appends one message, of role user and with the query text of
\* the turn, before it calls the embedding, the search, the decision or the
\* synthesis; whatever the outcome, the session holds nothing else and no
\* other session is written
C27_OneUserMessagePerTurn ==
    IF Appended
    THEN LET entry == RedisEntry("user", QueryText(turn.text, turn.selection), now)
         IN /\ redis[turn.sid].has
            /\ redis[turn.sid].val = <<entry>>
            /\ hist[turn.sid] = <<entry>>
            /\ \A s \in Sids \ {turn.sid} : ~redis[s].has /\ hist[s] = << >>
            /\ Cardinality(CallsOf("append")) = 1
            /\ \A c \in {"embed", "search", "tail", "decide", "answer"} :
                   \A k \in CallsOf(c) : \E j \in CallsOf("append") : j < k
    ELSE /\ \A s \in Sids : hist[s] = << >> /\ (redis[s].has => redis[s].val = << >>)
         /\ \A c \in {"embed", "search", "tail", "decide", "answer"} : CallsOf(c) = {}

\* a turn has ended after the synthesis, and the session holds its one
\* message
C27_Witness ==
    /\ turn.pc = "done"
    /\ CallsOf("answer") # {}
    /\ Len(redis[turn.sid].val) = 1
    /\ redis[turn.sid].val[1].role = "user"

\* C28: with a field detected in the query text and a top score of 0.75 or
\* more the turn answers from the top hit, with that score as confidence,
\* and calls neither the decision nor the synthesis; any other turn whose
\* search returned hits calls the decision once
C28_ShortCircuitOrOneDecision ==
    turn.pc = "done" /\ turn.hits # << >> =>
        IF CanonicalField(turn.q) # None /\ turn.hits[1].score >= 75
        THEN /\ turn.resp.type = "answer"
             /\ turn.resp.text = PyStr(ExtractValueFromContent(turn.hits[1].content))
             /\ turn.resp.confidence = PyFloat(turn.hits[1].score)
             /\ CallsOf("decide") = {}
             /\ CallsOf("answer") = {}
        ELSE Cardinality(CallsOf("decide")) = 1

\* a query naming a field has been answered from a top hit of score 0.8
\* without a decision
C28_Witness ==
    /\ turn.pc = "done"
    /\ turn.hits # << >>
    /\ CanonicalField(turn.q) # None
    /\ turn.hits[1].score >= 75
    /\ turn.resp.type = "answer"
    /\ turn.resp.confidence = PyFloat(turn.hits[1].score)
    /\ CallsOf("decide") = {}

\* ------------------------------------------------ time-to-live and expiry
\* C29: in every state of the Redis store, between the commands of a call
\* as well, each session key that exists has a time-to-live
C29_EveryKeyHasTtl == \A s \in Sids : redis[s].has => redis[s].exp # NoTTL

\* an entry of session s that was stored before the key expired: a key
\* expires TTL after its last EXPIRE and a SET removes the time-to-live, so
\* what the key held when it expired is at least TTL old (the clock of the
\* model stops before a second expiry of one session)
StoredBeforeExpiry(s, entry) == expired[s] /\ entry.ts + TTL <= now

\* C30: a get_tail that reads a session after its key has expired returns no
\* message stored before the expiry, whatever a running append_message did
\* around the expiry
C30_ExpiryDestroysMessages ==
    [][\A w \in Workers :
          (wk[w].pc = "tail_get" /\ wk'[w].pc = "done") =>
              \A i \in DOMAIN wk'[w].ret.list :
                  ~StoredBeforeExpiry(wk[w].sid, wk'[w].ret.list[i])]_vars

====
